---------------------------- MODULE Spec2Model ----------------------------
(***************************************************************************)
(* apicli: request execution and persistence.                              *)
(*                                                                         *)
(* Strings the code inspects character by character (header keys, URLs)    *)
(* are tuples of one-character strings; strings it only copies are TLA+    *)
(* strings.  A header mapping is a function from keys to values; Go's nil  *)
(* map is NilHeaders.                                                      *)
(***************************************************************************)
EXTENDS Integers, Sequences, FiniteSets, Bags, TLC

VARIABLES
    jsonHistory,    \* Backend A: content of history.json (NoFile when absent)
    sqlHistory,     \* Backend B: rows of table history, in idx_history_timestamp order
    tieOrder,       \* Backend B: order the engine gives rows of equal timestamp
    clock,          \* the latest timestamp any record was given
    nextId,         \* the next identifier never used before
    addLog,         \* what is known of the AddToHistory calls made since the log was empty
    last,           \* the storage call made by the last step
    steps,          \* number of storage calls made, and of irregular ones
    given,          \* Redact: the header mapping passed to filterSensitiveHeaders
    filtered,       \* Redact: the mapping it returned
    filteredTwice,  \* Redact: the mapping it returned for the returned mapping
    redactDone,     \* Redact: number of filterSensitiveHeaders calls made
    urlParts,       \* Validate: the components the URL was written from
    rawURL,         \* Validate: the URL passed to validateURL
    verdict,        \* Validate: what validateURL returned and printed
    pc,             \* Command: the statement the process is at
    cmd,            \* Command: its arguments, flags and local variables
    aliases,        \* table aliases: name -> url
    collections,    \* table saved_requests, in order of position
    heap,           \* the header maps the process has made, by address
    handed,         \* the calls of Client.Do: what it was passed
    wire,           \* the URLs requests were sent to, in order
    colNames,       \* Backend B: the names in the collections table
    printed,        \* what collection run has printed: one line per item or error
    aliasArg,       \* Resolve: the components the argument of resolveAlias was written from
    resolved,       \* Resolve: what resolveAlias returned, and whether the store opened
    jsonCollections, \* collections.json: absent, or the collections of the document
    jsonAliases,    \* aliases.json: absent, or the alias mapping of the document
    unparsable,     \* the legacy documents json.Unmarshal fails on
    started,        \* the number of NewStorage calls made
    replayed,       \* per legacy document, the startups that wrote records of it
    lastStartup,    \* the last NewStorage call: what it found and how it went
    jsonCols,       \* Backend A: collections.json as the collection operations keep it
    sqlCols,        \* Backend B: the collections and saved_requests tables, row by row
    addedTo,        \* per backend and collection, the requests added with success, in order
    colOps,         \* the number of collection operations called
    lastCol,        \* the last collection operation called
    doPc,           \* Client.Do: the statement the call is at
    served,         \* Client.Do: the body the server sends, byte by byte
    respBody,       \* Client.Do: the bytes io.ReadAll has read so far
    now,            \* Client.Do: the wall clock
    start,          \* Client.Do: start := time.Now()
    duration,       \* Client.Do: duration := time.Since(start)
    events,         \* Client.Do: what has happened in the call, in order
    returned,       \* Client.Do: what it returned and printed
    txPc,           \* AddToHistory: the statement the call is at
    txRows,         \* AddToHistory: table history as the open transaction sees it
    txReq,          \* AddToHistory: the record passed
    txBefore,       \* AddToHistory: table history when the call began
    txOutcome,      \* AddToHistory: how the last call ended
    racePc,         \* per invocation, the statement of migrateFromJSON it is at
    raceTodo,       \* per invocation, the writes of its replay still to make
    raceLegacy      \* collections.json as the two invocations found it

histVars == <<jsonHistory, sqlHistory, tieOrder, clock, nextId, addLog, last, steps>>

redactVars == <<given, filtered, filteredTwice, redactDone>>

urlVars == <<urlParts, rawURL, verdict>>

cmdVars == <<pc, cmd, aliases, collections, heap, handed, wire, colNames, printed>>

resolveVars == <<aliasArg, resolved>>

migrateVars == <<jsonCollections, jsonAliases, unparsable, started, replayed, lastStartup>>

colVars == <<jsonCols, sqlCols, addedTo, colOps, lastCol>>

clientVars == <<doPc, served, respBody, now, start, duration, events, returned>>

txVars == <<txPc, txRows, txReq, txBefore, txOutcome>>

raceVars == <<racePc, raceTodo, raceLegacy>>

finalVars == <<clientVars, txVars, raceVars>>

\* The variables of the parts described further down.
laterVars == <<resolveVars, migrateVars, colVars, finalVars>>

notHistory == <<redactVars, urlVars, cmdVars, laterVars>>

notRedact == <<histVars, urlVars, cmdVars, laterVars>>

notValidate == <<histVars, redactVars, cmdVars, laterVars>>

vars == <<histVars, redactVars, urlVars, cmdVars, laterVars>>

----------------------------------------------------------------------------
(* Small helpers on sequences.                                             *)

Min(a, b) == IF a < b THEN a ELSE b

Range(s) == {s[i] : i \in 1..Len(s)}

Take(s, n) == SubSeq(s, 1, Min(n, Len(s)))

InsertAt(s, p, x) == SubSeq(s, 1, p - 1) \o <<x>> \o SubSeq(s, p, Len(s))

RemoveAt(s, p) == SubSeq(s, 1, p - 1) \o SubSeq(s, p + 1, Len(s))

----------------------------------------------------------------------------
(* Header mappings and their JSON column form.                             *)

\* A map[string]string value: nil, or a mapping (map) from keys to values.
NilHeaders == [nil |-> TRUE, map |-> <<>>]

Headers(m) == [nil |-> FALSE, map |-> m]

EmptyHeaders == Headers(<<>>)

\* json.Marshal of a map[string]string: a nil map marshals to the text null,
\* any other to a JSON object.
MarshalHeaders(h) ==
    IF h.nil THEN [text |-> "null", object |-> <<>>]
    ELSE [text |-> "object", object |-> h.map]

\* An empty column, or the text null, gives an empty (non-nil) mapping.
parseJSONHeaders(column) ==
    IF column.text = "" THEN EmptyHeaders
    ELSE IF column.text = "null" THEN EmptyHeaders
    ELSE Headers(column.object)

----------------------------------------------------------------------------
(* History: model.Request records.                                         *)

\* A document file of Backend A: absent, or holding a list of records.
NoFile == [exists |-> FALSE, requests |-> <<>>]

Document(requests) == [exists |-> TRUE, requests |-> requests]

\* The Response pointer of a model.Request: nil, or a response.
NoResponse == [present |-> FALSE, headers |-> NilHeaders, body |-> ""]

Response(headers, body) == [present |-> TRUE, headers |-> headers, body |-> body]

\* The number of records the log keeps.  The code's limit is 100; the model
\* runs the same code with the limit scaled down to HistoryLimit.
HistoryLimit == 3

\* Backend A, JSONStorage.
JSONLoadHistory(doc) == IF ~doc.exists THEN <<>> ELSE doc.requests

JSONSaveHistory(doc, history) == Document(history)

\* Mutant: the truncation keeps one record too few.
JSONAddToHistoryOffByOne(doc, req) ==
    LET prepended == <<req>> \o JSONLoadHistory(doc)
        kept == IF Len(prepended) >= HistoryLimit
                THEN SubSeq(prepended, 1, HistoryLimit - 1)
                ELSE prepended
    IN  JSONSaveHistory(doc, kept)

JSONAddToHistory(doc, req) ==
    LET prepended == <<req>> \o JSONLoadHistory(doc)
        kept == IF Len(prepended) > HistoryLimit
                THEN SubSeq(prepended, 1, HistoryLimit)
                ELSE prepended
    IN  JSONSaveHistory(doc, kept)

JSONClearHistory(doc) == JSONSaveHistory(doc, <<>>)

\* Backend B, SQLiteStorage.  The table is kept in the order of the index on
\* timestamp DESC; a row holds the columns of a record.
HistoryRow(req) ==
    [id |-> req.id, timestamp |-> req.timestamp, url |-> req.url,
     headers |-> MarshalHeaders(req.headers), body |-> req.body,
     response |-> [present |-> req.response.present,
                   headers |-> MarshalHeaders(req.response.headers),
                   body |-> req.response.body]]

\* Where the index puts a new row: after the rows of a later timestamp, and
\* before or after those of the same timestamp according to the tie order.
IndexPosition(rows, row, ties) ==
    1 + Cardinality({i \in 1..Len(rows) :
            \/ rows[i].timestamp > row.timestamp
            \/ rows[i].timestamp = row.timestamp /\ ties = "oldest first"})

\* The rows other than the one whose primary key is id (at most one has it).
WithoutId(rows, id) ==
    LET at == {i \in 1..Len(rows) : rows[i].id = id}
    IN  IF at = {} THEN rows
        ELSE RemoveAt(rows, CHOOSE i \in at : TRUE)

\* INSERT OR REPLACE INTO history: id is the primary key, so a row of the same
\* id is deleted and the new one inserted.
insertHistoryRequest(rows, req, ties) ==
    LET others == WithoutId(rows, req.id)
        row == HistoryRow(req)
    IN  InsertAt(others, IndexPosition(others, row, ties), row)

\* Mutant: the subquery orders by timestamp ascending, keeping the oldest rows.
EvictNewest(rows) ==
    SubSeq(rows, IF Len(rows) > HistoryLimit THEN Len(rows) - HistoryLimit + 1 ELSE 1,
           Len(rows))

\* DELETE FROM history WHERE id NOT IN (SELECT id ... ORDER BY timestamp DESC LIMIT 100)
EvictBeyondLimit(rows) == Take(rows, HistoryLimit)

SQLiteAddToHistory(rows, req, ties) ==
    EvictBeyondLimit(insertHistoryRequest(rows, req, ties))

RECURSIVE InsertAll(_, _, _)
InsertAll(rows, reqs, ties) ==
    IF reqs = <<>> THEN rows
    ELSE InsertAll(insertHistoryRequest(rows, Head(reqs), ties), Tail(reqs), ties)

SQLiteSaveHistory(rows, history, ties) == InsertAll(<<>>, history, ties)

SQLiteClearHistory(rows) == <<>>

RowRequest(row) ==
    [id |-> row.id, timestamp |-> row.timestamp, url |-> row.url,
     headers |-> parseJSONHeaders(row.headers), body |-> row.body,
     response |-> IF ~row.response.present THEN NoResponse
                  ELSE Response(parseJSONHeaders(row.response.headers),
                                row.response.body)]

\* SELECT ... FROM history ORDER BY timestamp DESC LIMIT 100
SQLiteLoadHistory(rows) ==
    LET top == Take(rows, HistoryLimit)
    IN  [i \in 1..Len(top) |-> RowRequest(top[i])]

----------------------------------------------------------------------------
(* The history operations of the Storage interface, each call applied to   *)
(* both backends, starting from an empty store.                            *)

MaxCalls == 8

MaxIrregular == 2

Request(id, timestamp, url, headers, body, response) ==
    [id |-> id, timestamp |-> timestamp, url |-> url, headers |-> headers,
     body |-> body, response |-> response]

PlainRequest(id, timestamp) ==
    Request(id, timestamp, "u", EmptyHeaders, "", NoResponse)

NoCall == [op |-> "none", req |-> PlainRequest(0, 0)]

EmptyLog ==
    [calls |-> 0, sinceEmpty |-> TRUE, distinctIds |-> TRUE, inOrder |-> TRUE, ids |-> {}]

\* The history log before any call.
HistoryIdle ==
    /\ jsonHistory = NoFile
    /\ sqlHistory = <<>>
    /\ tieOrder \in {"oldest first", "newest first"}
    /\ clock = 0
    /\ nextId = 1
    /\ addLog = EmptyLog
    /\ last = NoCall
    /\ steps = [calls |-> 0, irregular |-> 0]

\* No filterSensitiveHeaders call made.
RedactIdle ==
    /\ given = NilHeaders
    /\ filtered = NilHeaders
    /\ filteredTwice = NilHeaders
    /\ redactDone = 0

\* A host as written in a URL, the name it stands for, whether it is well
\* formed.
HostText(text, name, wellFormed) ==
    [text |-> text, name |-> name, wellFormed |-> wellFormed]

\* A component that may be absent from a URL, and may be written with
\* characters a URL cannot hold there.
Absent == [present |-> FALSE, text |-> <<>>, wellFormed |-> TRUE]

Present(text) == [present |-> TRUE, text |-> text, wellFormed |-> TRUE]

Malformed(text) == [present |-> TRUE, text |-> text, wellFormed |-> FALSE]

NoParts ==
    [scheme |-> Absent, authority |-> FALSE, userinfo |-> Absent,
     host |-> HostText(<<>>, <<>>, TRUE), port |-> Absent, tail |-> Present(<<>>)]

NotValidated == [done |-> FALSE, err |-> "", warnings |-> {}]

\* No validateURL call made.
ValidateIdle ==
    /\ urlParts = NoParts
    /\ rawURL = <<>>
    /\ verdict = NotValidated

NoCommand ==
    [kind |-> "none", url |-> <<>>, flags |-> <<>>, noHistory |-> FALSE,
     collection |-> "", name |-> "", headerMap |-> 0, resp |-> NoResponse, item |-> 0]

\* No command started.
CommandIdle ==
    /\ pc = "shell"
    /\ cmd = NoCommand
    /\ aliases = <<>>
    /\ collections = <<>>
    /\ heap = <<>>
    /\ handed = <<>>
    /\ wire = <<>>
    /\ colNames = {}
    /\ printed = <<>>

NoAliasArg == [lead |-> <<>>, slashes |-> 0, rest |-> <<>>]

NotResolved == [done |-> FALSE, url |-> <<>>, opened |-> FALSE]

\* No resolveAlias call made on its own.
ResolveIdle ==
    /\ aliasArg = NoAliasArg
    /\ resolved = NotResolved

NoCollectionsFile == [exists |-> FALSE, names |-> {}, requests |-> <<>>]

NoAliasesFile == [exists |-> FALSE, table |-> <<>>]

NeverReplayed == [history |-> 0, collections |-> 0, aliases |-> 0]

NoStartup == [ran |-> FALSE]

\* No legacy collections.json or aliases.json, no NewStorage call followed.
MigrateIdle ==
    /\ jsonCollections = NoCollectionsFile
    /\ jsonAliases = NoAliasesFile
    /\ unparsable = {}
    /\ started = 0
    /\ replayed = NeverReplayed
    /\ lastStartup = NoStartup

NoDocument == [exists |-> FALSE, map |-> <<>>]

EmptyDatabase == [collections |-> {}, requests |-> {}, nextCollection |-> 1, nextRequest |-> 1]

NoOperation == [op |-> "none"]

\* No collection operation called on either backend.
CollectionsIdle ==
    /\ jsonCols = NoDocument
    /\ sqlCols = EmptyDatabase
    /\ addedTo = [A |-> <<>>, B |-> <<>>]
    /\ colOps = 0
    /\ lastCol = NoOperation

\* The parts described further down, before anything is done.
NotReturned == [done |-> FALSE, err |-> "", body |-> <<>>, durationMs |-> 0, warned |-> FALSE]

\* No Client.Do call made.
ClientIdle ==
    /\ doPc = "idle"
    /\ served = <<>>
    /\ respBody = <<>>
    /\ now = 0
    /\ start = 0
    /\ duration = 0
    /\ events = <<>>
    /\ returned = NotReturned

NoOutcome == [how |-> "none", at |-> "idle", held |-> 0, uncommitted |-> 0, replaced |-> FALSE]

\* No AddToHistory call under way.
TxIdle ==
    /\ txPc = "idle"
    /\ txRows = <<>>
    /\ txReq = PlainRequest(0, 0)
    /\ txBefore = <<>>
    /\ txOutcome = NoOutcome

\* No two invocations started together.
RaceIdle ==
    /\ racePc = <<>>
    /\ raceTodo = <<>>
    /\ raceLegacy = NoDocument

FinalIdle == ClientIdle /\ TxIdle /\ RaceIdle

LaterIdle == ResolveIdle /\ MigrateIdle /\ CollectionsIdle /\ FinalIdle

InitHistory == HistoryIdle /\ RedactIdle /\ ValidateIdle /\ CommandIdle /\ LaterIdle

StoredIds ==
    {r.id : r \in Range(JSONLoadHistory(jsonHistory))} \cup {r.id : r \in Range(sqlHistory)}

\* A call is regular when it passes a record with a new identifier and a
\* later timestamp than any before, as a caller stamping records with a fresh
\* uuid and the current time does.  Other calls (an identifier that is
\* stored already, a timestamp that is not later, SaveHistory, ClearHistory)
\* are counted as irregular.
Regular(id, ts) == id = nextId /\ ts = clock + 1

Count(irregular) ==
    [calls |-> steps.calls + 1,
     irregular |-> steps.irregular + (IF irregular THEN 1 ELSE 0)]

MayCall(irregular) ==
    /\ steps.calls < MaxCalls
    /\ irregular => steps.irregular < MaxIrregular

AddToHistory ==
    \E id \in {nextId} \cup StoredIds, ts \in {clock + 1, clock, 0} :
        LET req == PlainRequest(id, ts) IN
        /\ MayCall(~Regular(id, ts))
        /\ jsonHistory' = JSONAddToHistory(jsonHistory, req)
        /\ sqlHistory' = SQLiteAddToHistory(sqlHistory, req, tieOrder)
        /\ clock' = IF ts > clock THEN ts ELSE clock
        /\ nextId' = IF id = nextId THEN nextId + 1 ELSE nextId
        /\ addLog' = [calls |-> addLog.calls + 1,
                      sinceEmpty |-> addLog.sinceEmpty,
                      distinctIds |-> addLog.distinctIds /\ id \notin addLog.ids,
                      inOrder |-> addLog.inOrder /\ (addLog.calls = 0 \/ ts >= clock),
                      ids |-> addLog.ids \cup {id}]
        /\ last' = [op |-> "AddToHistory", req |-> req]
        /\ steps' = Count(~Regular(id, ts))
        /\ UNCHANGED <<tieOrder, notHistory>>

\* The histories a caller may pass to SaveHistory: new records, most recent
\* first, one of them or one more than the limit.
SavedHistories ==
    {[i \in 1..n |-> PlainRequest(nextId + n - i, clock + 1 + n - i)] :
        n \in {1, HistoryLimit + 1}}

SaveHistory ==
    /\ MayCall(TRUE)
    /\ \E history \in SavedHistories :
         /\ jsonHistory' = JSONSaveHistory(jsonHistory, history)
         /\ sqlHistory' = SQLiteSaveHistory(sqlHistory, history, tieOrder)
         /\ clock' = clock + Len(history)
         /\ nextId' = nextId + Len(history)
    /\ addLog' = [addLog EXCEPT !.sinceEmpty = FALSE]
    /\ last' = [op |-> "SaveHistory", req |-> NoCall.req]
    /\ steps' = Count(TRUE)
    /\ UNCHANGED <<tieOrder, notHistory>>

ClearHistory ==
    /\ MayCall(TRUE)
    /\ jsonHistory' = JSONClearHistory(jsonHistory)
    /\ sqlHistory' = SQLiteClearHistory(sqlHistory)
    /\ addLog' = EmptyLog
    /\ last' = [op |-> "ClearHistory", req |-> NoCall.req]
    /\ steps' = Count(TRUE)
    /\ UNCHANGED <<tieOrder, clock, nextId, notHistory>>

NextHistory == AddToHistory \/ SaveHistory \/ ClearHistory

SpecHistory == InitHistory /\ [][NextHistory]_vars

----------------------------------------------------------------------------
(* Claims about the history log.                                           *)

StoredInA == JSONLoadHistory(jsonHistory)

LoadedFromB == SQLiteLoadHistory(sqlHistory)

MostRecentFirst(history) ==
    \A i \in 1..(Len(history) - 1) : history[i].timestamp >= history[i + 1].timestamp

C2_AsClaimed ==
    last.op \in {"AddToHistory", "SaveHistory", "ClearHistory"} =>
        /\ Len(StoredInA) <= HistoryLimit
        /\ Len(sqlHistory) <= HistoryLimit

\* The records of a list, each counted as often as the list holds it.
SeqBag(s) == [x \in Range(s) |-> Cardinality({i \in 1..Len(s) : s[i] = x})]

\* The records an AddToHistory call removed are the oldest by timestamp: what
\* is kept are limit records of those stored before and the new one, none of
\* them older than a removed one.
KeepsMostRecent(before, new, after) ==
    LET all == SeqBag(<<new>> \o before)
        kept == SeqBag(after)
    IN  /\ kept \sqsubseteq all
        /\ Len(after) = HistoryLimit
        /\ \A gone \in BagToSet(all (-) kept), k \in BagToSet(kept) :
               gone.timestamp <= k.timestamp

\* An AddToHistory call that makes the log exceed the limit.
ExceedsInA == last'.op = "AddToHistory" /\ Len(StoredInA) = HistoryLimit

ExceedsInB ==
    /\ last'.op = "AddToHistory"
    /\ Len(sqlHistory) = HistoryLimit
    /\ \A i \in 1..Len(sqlHistory) : sqlHistory[i].id # last'.req.id

RequestsInB(rows) == [i \in 1..Len(rows) |-> RowRequest(rows[i])]

\* Adding limit + 5 records one after the other leaves the newest limit.
SequentialAdds ==
    (steps.irregular = 0 /\ steps.calls = HistoryLimit + 5) =>
        /\ {r.id : r \in Range(StoredInA)} = 6..(HistoryLimit + 5)
        /\ {r.id : r \in Range(LoadedFromB)} = 6..(HistoryLimit + 5)

AKeepsMostRecent ==
    KeepsMostRecent(StoredInA, last'.req, StoredInA')

BKeepsMostRecent ==
    KeepsMostRecent(RequestsInB(sqlHistory), last'.req, RequestsInB(sqlHistory'))

\* Backend A drops the record at the end of its list.
ADropsLast ==
    StoredInA' = <<last'.req>> \o SubSeq(StoredInA, 1, HistoryLimit - 1)

----------------------------------------------------------------------------
(* Redaction of sensitive headers.                                         *)

UpperCase == <<"A", "B", "C", "D", "E", "F", "G", "H", "I", "J", "K", "L", "M",
              "N", "O", "P", "Q", "R", "S", "T", "U", "V", "W", "X", "Y", "Z">>

LowerCase == <<"a", "b", "c", "d", "e", "f", "g", "h", "i", "j", "k", "l", "m",
              "n", "o", "p", "q", "r", "s", "t", "u", "v", "w", "x", "y", "z">>

ToLowerChar(c) ==
    IF \E i \in 1..Len(UpperCase) : UpperCase[i] = c
    THEN LowerCase[CHOOSE i \in 1..Len(UpperCase) : UpperCase[i] = c]
    ELSE c

\* strings.ToLower
ToLower(s) == [i \in 1..Len(s) |-> ToLowerChar(s[i])]

sensitiveHeaders ==
    { <<"a", "u", "t", "h", "o", "r", "i", "z", "a", "t", "i", "o", "n">>,
      <<"p", "r", "o", "x", "y", "-", "a", "u", "t", "h", "o", "r", "i", "z", "a", "t", "i", "o", "n">>,
      <<"w", "w", "w", "-", "a", "u", "t", "h", "e", "n", "t", "i", "c", "a", "t", "e">>,
      <<"c", "o", "o", "k", "i", "e">>,
      <<"s", "e", "t", "-", "c", "o", "o", "k", "i", "e">>,
      <<"x", "-", "a", "p", "i", "-", "k", "e", "y">>,
      <<"a", "p", "i", "-", "k", "e", "y">>,
      <<"x", "-", "a", "u", "t", "h", "-", "t", "o", "k", "e", "n">>,
      <<"x", "-", "c", "s", "r", "f", "-", "t", "o", "k", "e", "n">>,
      <<"x", "-", "x", "s", "r", "f", "-", "t", "o", "k", "e", "n">>,
      <<"x", "-", "a", "m", "z", "-", "s", "e", "c", "u", "r", "i", "t", "y", "-", "t", "o", "k", "e", "n">>,
      <<"x", "-", "a", "m", "z", "-", "c", "r", "e", "d", "e", "n", "t", "i", "a", "l">>,
      <<"x", "-", "a", "m", "z", "-", "s", "i", "g", "n", "a", "t", "u", "r", "e">>,
      <<"x", "-", "g", "o", "o", "g", "-", "a", "u", "t", "h", "e", "n", "t", "i", "c", "a", "t", "e", "d", "-", "u", "s", "e", "r", "-", "e", "m", "a", "i", "l">>,
      <<"x", "-", "g", "o", "o", "g", "-", "a", "u", "t", "h", "e", "n", "t", "i", "c", "a", "t", "e", "d", "-", "u", "s", "e", "r", "-", "i", "d">>,
      <<"x", "-", "g", "o", "o", "g", "-", "i", "a", "p", "-", "j", "w", "t", "-", "a", "s", "s", "e", "r", "t", "i", "o", "n">>,
      <<"x", "-", "m", "s", "-", "c", "l", "i", "e", "n", "t", "-", "p", "r", "i", "n", "c", "i", "p", "a", "l">>,
      <<"x", "-", "m", "s", "-", "c", "l", "i", "e", "n", "t", "-", "p", "r", "i", "n", "c", "i", "p", "a", "l", "-", "i", "d">>,
      <<"x", "-", "m", "s", "-", "t", "o", "k", "e", "n", "-", "a", "a", "d", "-", "i", "d", "-", "t", "o", "k", "e", "n">>,
      <<"x", "-", "a", "c", "c", "e", "s", "s", "-", "t", "o", "k", "e", "n">>,
      <<"x", "-", "r", "e", "f", "r", "e", "s", "h", "-", "t", "o", "k", "e", "n">>,
      <<"x", "-", "s", "e", "s", "s", "i", "o", "n", "-", "t", "o", "k", "e", "n">>,
      <<"x", "-", "s", "e", "c", "r", "e", "t", "-", "k", "e", "y">>,
      <<"x", "-", "p", "r", "i", "v", "a", "t", "e", "-", "k", "e", "y">> }

REDACTED == <<"[", "R", "E", "D", "A", "C", "T", "E", "D", "]">>

\* Mutant: the key is looked up as it is written.
filterCaseSensitive(headers) ==
    IF headers.nil THEN NilHeaders
    ELSE Headers([k \in DOMAIN headers.map |->
                    IF k \in sensitiveHeaders THEN REDACTED ELSE headers.map[k]])

\* Mutant: the marker is added to the value of a sensitive header.
filterAppendingMarker(headers) ==
    IF headers.nil THEN NilHeaders
    ELSE Headers([k \in DOMAIN headers.map |->
                    IF ToLower(k) \in sensitiveHeaders
                    THEN headers.map[k] \o REDACTED ELSE headers.map[k]])

filterSensitiveHeaders(headers) ==
    IF headers.nil THEN NilHeaders
    ELSE Headers([k \in DOMAIN headers.map |->
                    IF ToLower(k) \in sensitiveHeaders THEN REDACTED ELSE headers.map[k]])

\* The header mappings filterSensitiveHeaders is called with: nil, and the
\* mappings of at most MaxHeaders of these keys to these values.
MaxHeaders == 2

GivenKeys ==
    { <<"A", "u", "t", "h", "o", "r", "i", "z", "a", "t", "i", "o", "n">>,
      <<"A", "U", "T", "H", "O", "R", "I", "Z", "A", "T", "I", "O", "N">>,
      <<"c", "o", "o", "k", "i", "e">>,
      <<"S", "e", "t", "-", "C", "o", "o", "k", "i", "e">>,
      <<"X", "-", "A", "P", "I", "-", "K", "e", "y">>,
      <<"A", "c", "c", "e", "p", "t">>,
      <<"C", "o", "o", "k", "i", "e", "s">>,
      <<"X", "-", "R", "e", "q", "u", "e", "s", "t", "-", "I", "d">> }

GivenValues == {<<>>, <<"t", "0", "k", "3", "n">>, REDACTED}

HeaderMappings ==
    {NilHeaders} \cup
    {Headers(m) : m \in UNION {[K -> GivenValues] :
                     K \in {K \in SUBSET GivenKeys : Cardinality(K) <= MaxHeaders}}}

InitRedact ==
    /\ HistoryIdle
    /\ ValidateIdle
    /\ CommandIdle
    /\ LaterIdle
    /\ given \in HeaderMappings
    /\ filtered = NilHeaders
    /\ filteredTwice = NilHeaders
    /\ redactDone = 0

Redact ==
    /\ redactDone = 0
    /\ filtered' = filterSensitiveHeaders(given)
    /\ redactDone' = 1
    /\ UNCHANGED <<given, filteredTwice, notRedact>>

RedactAgain ==
    /\ redactDone = 1
    /\ filteredTwice' = filterSensitiveHeaders(filtered)
    /\ redactDone' = 2
    /\ UNCHANGED <<given, filtered, notRedact>>

NextRedact == Redact \/ RedactAgain

SpecRedact == InitRedact /\ [][NextRedact]_vars

----------------------------------------------------------------------------
(* Claims about redaction.                                                 *)

\* A key whose lowercase form is in the sensitive set.
Sensitive(k) == ToLower(k) \in sensitiveHeaders

\* C6: Redact(h) has exactly the keys of h, written as in h; a key whose
\* lowercase form is in the sensitive set maps to [REDACTED] and every other
\* key to the value it has in h.
C6_RedactKeysAndValues ==
    redactDone >= 1 =>
        /\ filtered.nil = given.nil
        /\ DOMAIN filtered.map = DOMAIN given.map
        /\ \A k \in DOMAIN given.map :
              filtered.map[k] = IF Sensitive(k) THEN REDACTED ELSE given.map[k]

C6_Witness ==
    /\ redactDone >= 1
    /\ \E k \in DOMAIN given.map :
          /\ Sensitive(k) /\ k \notin sensitiveHeaders
          /\ given.map[k] # REDACTED /\ filtered.map[k] = REDACTED
    /\ \E k \in DOMAIN given.map :
          ~Sensitive(k) /\ given.map[k] # <<>> /\ filtered.map[k] = given.map[k]

\* C7: Redact is idempotent, Redact(Redact(h)) = Redact(h).
C7_RedactIdempotent == redactDone = 2 => filteredTwice = filtered

C7_Witness ==
    /\ redactDone = 2
    /\ filtered # given
    /\ filteredTwice = filtered
    /\ \E k \in DOMAIN filtered.map : filtered.map[k] # REDACTED

----------------------------------------------------------------------------
(* URLs: net/url's Parse and Hostname as validateURL calls them, on URLs   *)
(* without percent escapes.                                                *)

Lowest(S) == CHOOSE i \in S : \A j \in S : i <= j

Highest(S) == CHOOSE i \in S : \A j \in S : i >= j

\* strings.Index and strings.LastIndex for one character, counted from 1;
\* 0 when the character does not occur.
IndexOf(s, c) ==
    LET at == {i \in 1..Len(s) : s[i] = c} IN IF at = {} THEN 0 ELSE Lowest(at)

LastIndexOf(s, c) ==
    LET at == {i \in 1..Len(s) : s[i] = c} IN IF at = {} THEN 0 ELSE Highest(at)

From(s, i) == SubSeq(s, i, Len(s))

HasPrefix(s, prefix) ==
    Len(s) >= Len(prefix) /\ SubSeq(s, 1, Len(prefix)) = prefix

HasSuffix(s, suffix) ==
    Len(s) >= Len(suffix) /\ From(s, Len(s) - Len(suffix) + 1) = suffix

\* The part of s before the first c: strings.Cut.
Before(s, c) == IF IndexOf(s, c) = 0 THEN s ELSE SubSeq(s, 1, IndexOf(s, c) - 1)

Letters == Range(UpperCase) \cup Range(LowerCase)

Digits == {"0", "1", "2", "3", "4", "5", "6", "7", "8", "9"}

ControlChars == {"\t", "\n", "\r"}

\* Characters net/url accepts unescaped in a host and in userinfo.
HostChars ==
    Letters \cup Digits \cup
    {"-", "_", ".", "~", "!", "$", "&", "'", "(", ")", "*", "+", ",", ";", "=",
     ":", "[", "]", "<", ">", "\""}

UserinfoChars ==
    Letters \cup Digits \cup
    {"-", ".", "_", ":", "~", "!", "$", "&", "'", "(", ")", "*", "+", ",", ";", "=",
     "%", "@"}

ParsedURL(scheme, host) == [err |-> "", Scheme |-> scheme, Host |-> host]

ParseError(msg) == [err |-> msg, Scheme |-> <<>>, Host |-> <<>>]

getScheme(url) ==
    LET stops == {i \in 1..Len(url) :
                     /\ url[i] \notin Letters
                     /\ i = 1 \/ url[i] \notin Digits \cup {"+", "-", "."}}
        i == Lowest(stops)
    IN  IF stops = {} THEN [scheme |-> <<>>, path |-> url, err |-> ""]
        ELSE IF url[i] # ":" THEN [scheme |-> <<>>, path |-> url, err |-> ""]
        ELSE IF i = 1 THEN [scheme |-> <<>>, path |-> <<>>, err |-> "missing protocol scheme"]
        ELSE [scheme |-> SubSeq(url, 1, i - 1), path |-> From(url, i + 1), err |-> ""]

validOptionalPort(port) ==
    \/ port = <<>>
    \/ port[1] = ":" /\ \A i \in 2..Len(port) : port[i] \in Digits

parseHost(host) ==
    LET close == LastIndexOf(host, "]")
        colon == LastIndexOf(host, ":")
    IN  IF HasPrefix(host, <<"[">>) /\ close = 0
        THEN [host |-> <<>>, err |-> "missing ']' in host"]
        ELSE IF HasPrefix(host, <<"[">>) /\ ~validOptionalPort(From(host, close + 1))
        THEN [host |-> <<>>, err |-> "invalid port after host"]
        ELSE IF ~HasPrefix(host, <<"[">>) /\ colon # 0 /\ ~validOptionalPort(From(host, colon))
        THEN [host |-> <<>>, err |-> "invalid port after host"]
        ELSE IF \E i \in 1..Len(host) : host[i] \notin HostChars
        THEN [host |-> <<>>, err |-> "invalid character in host name"]
        ELSE [host |-> host, err |-> ""]

parseAuthority(authority) ==
    LET at == LastIndexOf(authority, "@")
        parsed == parseHost(From(authority, at + 1))
    IN  IF parsed.err # "" THEN parsed
        ELSE IF at # 0 /\ \E i \in 1..(at - 1) : authority[i] \notin UserinfoChars
        THEN [host |-> <<>>, err |-> "invalid userinfo"]
        ELSE parsed

\* url.Parse: the fragment is cut off, then the scheme, then the query; what
\* follows "//" up to the next "/" is the authority.
Parse(url) ==
    LET u == Before(url, "#")
        split == getScheme(u)
        scheme == ToLower(split.scheme)
        rest == Before(split.path, "?")
        authority == Before(From(rest, 3), "/")
        parsed == parseAuthority(authority)
    IN  IF \E i \in 1..Len(u) : u[i] \in ControlChars
        THEN ParseError("invalid control character in URL")
        ELSE IF u = <<"*">> THEN ParsedURL(<<>>, <<>>)
        ELSE IF split.err # "" THEN ParseError(split.err)
        ELSE IF ~HasPrefix(rest, <<"/">>) /\ scheme # <<>> THEN ParsedURL(scheme, <<>>)
        ELSE IF ~HasPrefix(rest, <<"/">>) /\ IndexOf(Before(rest, "/"), ":") # 0
        THEN ParseError("first path segment in URL cannot contain colon")
        ELSE IF (scheme # <<>> \/ ~HasPrefix(rest, <<"/", "/", "/">>))
                /\ HasPrefix(rest, <<"/", "/">>)
        THEN IF parsed.err # "" THEN ParseError(parsed.err) ELSE ParsedURL(scheme, parsed.host)
        ELSE ParsedURL(scheme, <<>>)

\* URL.Hostname: the host without a valid port and without brackets.
Hostname(host) ==
    LET colon == LastIndexOf(host, ":")
        name == IF colon # 0 /\ validOptionalPort(From(host, colon))
                THEN SubSeq(host, 1, colon - 1) ELSE host
    IN  IF HasPrefix(name, <<"[">>) /\ HasSuffix(name, <<"]">>)
        THEN SubSeq(name, 2, Len(name) - 1) ELSE name

----------------------------------------------------------------------------
(* The URL safety validator.                                               *)

http == <<"h", "t", "t", "p">>

https == <<"h", "t", "t", "p", "s">>

loopbackHosts ==
    { <<"l", "o", "c", "a", "l", "h", "o", "s", "t">>,
      <<"1", "2", "7", ".", "0", ".", "0", ".", "1">>,
      <<":", ":", "1">> }

privatePatterns ==
    { <<"1", "0", ".">>, <<"1", "9", "2", ".", "1", "6", "8", ".">>,
      <<"1", "7", "2", ".", "1", "6", ".">>, <<"1", "7", "2", ".", "1", "7", ".">>,
      <<"1", "7", "2", ".", "1", "8", ".">>, <<"1", "7", "2", ".", "1", "9", ".">>,
      <<"1", "7", "2", ".", "2", "0", ".">>, <<"1", "7", "2", ".", "2", "1", ".">>,
      <<"1", "7", "2", ".", "2", "2", ".">>, <<"1", "7", "2", ".", "2", "3", ".">>,
      <<"1", "7", "2", ".", "2", "4", ".">>, <<"1", "7", "2", ".", "2", "5", ".">>,
      <<"1", "7", "2", ".", "2", "6", ".">>, <<"1", "7", "2", ".", "2", "7", ".">>,
      <<"1", "7", "2", ".", "2", "8", ".">>, <<"1", "7", "2", ".", "2", "9", ".">>,
      <<"1", "7", "2", ".", "3", "0", ".">>, <<"1", "7", "2", ".", "3", "1", ".">>,
      <<"0", ".">>, <<"1", "6", "9", ".", "2", "5", "4", ".">> }

metadataHosts ==
    { <<"1", "6", "9", ".", "2", "5", "4", ".", "1", "6", "9", ".", "2", "5", "4">>,
      <<"m", "e", "t", "a", "d", "a", "t", "a", ".", "g", "o", "o", "g", "l", "e", ".", "i", "n", "t", "e", "r", "n", "a", "l">>,
      <<"m", "e", "t", "a", "d", "a", "t", "a", ".", "g", "o", "o", "g">>,
      <<"1", "0", "0", ".", "1", "0", "0", ".", "1", "0", "0", ".", "2", "0", "0">>,
      <<"1", "6", "9", ".", "2", "5", "4", ".", "1", "7", "0", ".", "2">> }

isPrivateOrReservedHost(hostname) ==
    \E pattern \in privatePatterns : HasPrefix(hostname, pattern)

\* Mutant: the hostname is looked up as it is written.
isMetadataHostAsWritten(hostname) == hostname \in metadataHosts

isCloudMetadataEndpoint(hostname) == ToLower(hostname) \in metadataHosts

Rejected(err, warnings) == [done |-> TRUE, err |-> err, warnings |-> warnings]

Allowed(warnings) == [done |-> TRUE, err |-> "", warnings |-> warnings]

validateURL(url) ==
    LET parsed == Parse(url)
        scheme == ToLower(parsed.Scheme)
        hostname == Hostname(parsed.Host)
        warnings ==
            (IF ToLower(hostname) \in loopbackHosts THEN {"localhost/loopback"} ELSE {})
            \cup (IF isPrivateOrReservedHost(hostname) THEN {"private/internal"} ELSE {})
    IN  IF parsed.err # "" THEN Rejected("invalid URL", {})
        ELSE IF scheme # http /\ scheme # https THEN Rejected("unsupported URL scheme", {})
        ELSE IF hostname = <<>> THEN Rejected("URL must have a hostname", {})
        ELSE IF isCloudMetadataEndpoint(hostname)
        THEN Rejected("blocked request to cloud metadata endpoint", warnings)
        ELSE Allowed(warnings)

----------------------------------------------------------------------------
(* validateURL on URLs written from components.                            *)

Schemes ==
    { Absent, Present(http), Present(<<"H", "T", "T", "P", "S">>), Present(<<"H", "t", "t", "p">>),
      Present(<<"f", "t", "p">>), Present(<<"f", "i", "l", "e">>) }

Userinfos ==
    { Absent, Present(<<"u", "s", "e", "r">>), Present(<<"1", "6", "9", ".", "2", "5", "4", ".", "1", "6", "9", ".", "2", "5", "4">>),
      Malformed(<<"u", "s", " ", "e", "r">>) }

Hosts ==
    { HostText(<<>>, <<>>, TRUE),
      HostText(<<"e", "x", "a", "m", "p", "l", "e", ".", "c", "o", "m">>, <<"e", "x", "a", "m", "p", "l", "e", ".", "c", "o", "m">>, TRUE),
      HostText(<<"l", "o", "c", "a", "l", "h", "o", "s", "t">>, <<"l", "o", "c", "a", "l", "h", "o", "s", "t">>, TRUE),
      HostText(<<"1", "2", "7", ".", "0", ".", "0", ".", "1">>, <<"1", "2", "7", ".", "0", ".", "0", ".", "1">>, TRUE),
      HostText(<<"1", "0", ".", "0", ".", "0", ".", "5">>, <<"1", "0", ".", "0", ".", "0", ".", "5">>, TRUE),
      HostText(<<"1", "6", "9", ".", "2", "5", "4", ".", "1", "6", "9", ".", "2", "5", "4">>, <<"1", "6", "9", ".", "2", "5", "4", ".", "1", "6", "9", ".", "2", "5", "4">>, TRUE),
      HostText(<<"1", "6", "9", ".", "2", "5", "4", ".", "1", "6", "9", ".", "2", "5", "4", ".">>, <<"1", "6", "9", ".", "2", "5", "4", ".", "1", "6", "9", ".", "2", "5", "4", ".">>, TRUE),
      HostText(<<"1", "6", "9", ".", "2", "5", "4", ".", "1", "6", "9", ".", "2", "5">>, <<"1", "6", "9", ".", "2", "5", "4", ".", "1", "6", "9", ".", "2", "5">>, TRUE),
      HostText(<<"M", "E", "T", "A", "D", "A", "T", "A", ".", "G", "o", "o", "g", "l", "e", ".", "I", "n", "t", "e", "r", "n", "a", "l">>, <<"M", "E", "T", "A", "D", "A", "T", "A", ".", "G", "o", "o", "g", "l", "e", ".", "I", "n", "t", "e", "r", "n", "a", "l">>, TRUE),
      HostText(<<"m", "e", "t", "a", "d", "a", "t", "a", ".", "g", "o", "o", "g">>, <<"m", "e", "t", "a", "d", "a", "t", "a", ".", "g", "o", "o", "g">>, TRUE),
      HostText(<<"1", "0", "0", ".", "1", "0", "0", ".", "1", "0", "0", ".", "2", "0", "0">>, <<"1", "0", "0", ".", "1", "0", "0", ".", "1", "0", "0", ".", "2", "0", "0">>, TRUE),
      HostText(<<"1", "6", "9", ".", "2", "5", "4", ".", "1", "7", "0", ".", "2">>, <<"1", "6", "9", ".", "2", "5", "4", ".", "1", "7", "0", ".", "2">>, TRUE),
      HostText(<<"[", ":", ":", "1", "]">>, <<":", ":", "1">>, TRUE),
      HostText(<<"[", ":", ":", "1">>, <<":", ":", "1">>, FALSE),
      HostText(<<"e", "x", "a", " ", "m", "p", "l", "e", ".", "c", "o", "m">>, <<"e", "x", "a", " ", "m", "p", "l", "e", ".", "c", "o", "m">>, FALSE) }

Ports == { Absent, Present(<<"8", "0", "8", "0">>), Present(<<>>), Malformed(<<"8", "0", "a">>) }

Tails ==
    { Present(<<>>), Present(<<"/">>), Present(<<"/", "l", "a", "t", "e", "s", "t", "/", "m", "e", "t", "a", "-", "d", "a", "t", "a", "/">>),
      Present(<<"/", "@", "1", "6", "9", ".", "2", "5", "4", ".", "1", "6", "9", ".", "2", "5", "4">>), Present(<<"?", "@", "m", "e", "t", "a", "d", "a", "t", "a", ".", "g", "o", "o", "g">>),
      Present(<<"#", "@", "1", "6", "9", ".", "2", "5", "4", ".", "1", "6", "9", ".", "2", "5", "4">>), Malformed(<<"/", "a", "\t", "b">>) }

\* With an authority: scheme://userinfo@host:port tail; without one the host
\* is written where the path is.
URLParts ==
    [scheme : Schemes, authority : {TRUE}, userinfo : Userinfos, host : Hosts,
     port : Ports, tail : Tails]
    \cup
    [scheme : Schemes, authority : {FALSE}, userinfo : {Absent}, host : Hosts,
     port : {Absent}, tail : Tails]

Render(p) ==
    (IF p.scheme.present THEN p.scheme.text \o <<":">> ELSE <<>>)
    \o (IF p.authority THEN <<"/", "/">> ELSE <<>>)
    \o (IF p.userinfo.present THEN p.userinfo.text \o <<"@">> ELSE <<>>)
    \o p.host.text
    \o (IF p.port.present THEN <<":">> \o p.port.text ELSE <<>>)
    \o p.tail.text

InitValidate ==
    /\ HistoryIdle
    /\ RedactIdle
    /\ CommandIdle
    /\ LaterIdle
    /\ urlParts \in URLParts
    /\ rawURL = Render(urlParts)
    /\ verdict = NotValidated

Validate ==
    /\ ~verdict.done
    /\ verdict' = validateURL(rawURL)
    /\ UNCHANGED <<urlParts, rawURL, notValidate>>

NextValidate == Validate

SpecValidate == InitValidate /\ [][NextValidate]_vars

----------------------------------------------------------------------------
(* Claims about the validator.                                             *)

\* The hosts the validator is to block.
DenylistedHosts ==
    { <<"1", "6", "9", ".", "2", "5", "4", ".", "1", "6", "9", ".", "2", "5", "4">>,
      <<"m", "e", "t", "a", "d", "a", "t", "a", ".", "g", "o", "o", "g", "l", "e", ".", "i", "n", "t", "e", "r", "n", "a", "l">>,
      <<"m", "e", "t", "a", "d", "a", "t", "a", ".", "g", "o", "o", "g">>,
      <<"1", "0", "0", ".", "1", "0", "0", ".", "1", "0", "0", ".", "2", "0", "0">>,
      <<"1", "6", "9", ".", "2", "5", "4", ".", "1", "7", "0", ".", "2">> }

FailsToParse(p) ==
    \/ ~p.tail.wellFormed
    \/ p.authority /\ ~(p.userinfo.wellFormed /\ p.host.wellFormed /\ p.port.wellFormed)

SchemeIsHTTP(p) ==
    p.scheme.present /\ ToLower(p.scheme.text) \in {<<"h", "t", "t", "p">>, <<"h", "t", "t", "p", "s">>}

HostIsEmpty(p) == ~p.authority \/ p.host.name = <<>>

HostIsDenylisted(p) == p.authority /\ ToLower(p.host.name) \in DenylistedHosts

HostIsLocalOrPrivate(p) ==
    \/ p.host.name \in {<<"l", "o", "c", "a", "l", "h", "o", "s", "t">>, <<"1", "2", "7", ".", "0", ".", "0", ".", "1">>, <<":", ":", "1">>}
    \/ p.host.name = <<"1", "0", ".", "0", ".", "0", ".", "5">>

----------------------------------------------------------------------------
(* One run of a command: a request command, collection add, collection     *)
(* run, on a data directory earlier runs have left.                        *)

\* strings.TrimSpace
TrimSpace(s) ==
    LET kept == {i \in 1..Len(s) : s[i] \notin {" ", "\t", "\n", "\r"}}
    IN  IF kept = {} THEN <<>> ELSE SubSeq(s, Lowest(kept), Highest(kept))

\* The flags without a colon are skipped; of two flags with one key the
\* later wins.
parseHeaders(headerStrings) ==
    LET valid == {i \in 1..Len(headerStrings) : IndexOf(headerStrings[i], ":") # 0}
        key(i) == TrimSpace(Before(headerStrings[i], ":"))
        value(i) == TrimSpace(From(headerStrings[i], IndexOf(headerStrings[i], ":") + 1))
    IN  Headers([k \in {key(i) : i \in valid} |->
                    value(Highest({i \in valid : key(i) = k}))])

\* resolveAlias testing only the https:// prefix.
resolveAliasOnlyHTTPS(url, table, opened) ==
    LET idx == IndexOf(url, "/")
        aliasName == IF idx # 0 THEN SubSeq(url, 1, idx - 1) ELSE url
        path == IF idx # 0 THEN From(url, idx + 1) ELSE <<>>
        baseURL == IF HasSuffix(table[aliasName], <<"/">>)
                   THEN SubSeq(table[aliasName], 1, Len(table[aliasName]) - 1)
                   ELSE table[aliasName]
        trimmed == IF HasPrefix(path, <<"/">>) THEN From(path, 2) ELSE path
    IN  IF HasPrefix(url, https \o <<":", "/", "/">>)
        THEN url
        ELSE IF ~opened \/ aliasName \notin DOMAIN table THEN url
        ELSE IF trimmed = <<>> THEN baseURL
        ELSE baseURL \o <<"/">> \o trimmed

\* resolveAlias keeping the trailing "/" of the base.
resolveAliasKeepingSlash(url, table, opened) ==
    LET idx == IndexOf(url, "/")
        aliasName == IF idx # 0 THEN SubSeq(url, 1, idx - 1) ELSE url
        path == IF idx # 0 THEN From(url, idx + 1) ELSE <<>>
        trimmed == IF HasPrefix(path, <<"/">>) THEN From(path, 2) ELSE path
    IN  IF HasPrefix(url, http \o <<":", "/", "/">>) \/ HasPrefix(url, https \o <<":", "/", "/">>)
        THEN url
        ELSE IF ~opened \/ aliasName \notin DOMAIN table THEN url
        ELSE IF trimmed = <<>> THEN table[aliasName]
        ELSE table[aliasName] \o <<"/">> \o trimmed

\* The store is opened only for a url that is not a full URL; when it cannot
\* be opened or holds no such alias the url is returned as it is.
resolveAlias(url, table, opened) ==
    LET idx == IndexOf(url, "/")
        aliasName == IF idx # 0 THEN SubSeq(url, 1, idx - 1) ELSE url
        path == IF idx # 0 THEN From(url, idx + 1) ELSE <<>>
        baseURL == IF HasSuffix(table[aliasName], <<"/">>)
                   THEN SubSeq(table[aliasName], 1, Len(table[aliasName]) - 1)
                   ELSE table[aliasName]
        trimmed == IF HasPrefix(path, <<"/">>) THEN From(path, 2) ELSE path
    IN  IF HasPrefix(url, http \o <<":", "/", "/">>) \/ HasPrefix(url, https \o <<":", "/", "/">>)
        THEN url
        ELSE IF ~opened \/ aliasName \notin DOMAIN table THEN url
        ELSE IF trimmed = <<>> THEN baseURL
        ELSE baseURL \o <<"/">> \o trimmed

RECURSIVE AddAll(_, _, _)
AddAll(rows, reqs, ties) ==
    IF reqs = <<>> THEN rows
    ELSE AddAll(SQLiteAddToHistory(rows, Head(reqs), ties), Tail(reqs), ties)

\* NewStorage runs the migration: with all three tables empty the records of
\* history.json are added to the history and the file is renamed.
migrateFromJSON(rows, names, table, file, ties) ==
    IF rows # <<>> \/ names # {} \/ table # <<>> THEN [rows |-> rows, file |-> file]
    ELSE IF file.exists /\ file.requests # <<>>
    THEN [rows |-> AddAll(rows, file.requests, ties), file |-> NoFile]
    ELSE [rows |-> rows, file |-> file]

\* The history table and history.json after NewStorage, opened or failed.
NewStorage(opened) ==
    IF opened THEN migrateFromJSON(sqlHistory, colNames, aliases, jsonHistory, tieOrder)
    ELSE [rows |-> sqlHistory, file |-> jsonHistory]

SavedRequest(collection, name, method, url, headers, body) ==
    [collection |-> collection, name |-> name, method |-> method, url |-> url,
     headers |-> headers, body |-> body]

AddToCollection(saved, req) == Append(saved, req)

GetCollection(saved, name) ==
    LET InCollection(r) == r.collection = name IN SelectSeq(saved, InCollection)

\* Mutant: the filter writes into the map it was passed.
ReuseMap(maps, passed) == passed

\* filtered := make(map[string]string): the address of a new map.
MakeMap(maps, passed) == Len(maps) + 1

Store(maps, address, headers) ==
    IF address = Len(maps) + 1 THEN Append(maps, headers)
    ELSE [maps EXCEPT ![address] = headers]

\* Mutant: the response is stored as it was received.
unfilteredResp(resp) == resp

filteredResp(resp) ==
    IF ~resp.present THEN NoResponse
    ELSE Response(filterSensitiveHeaders(resp.headers), resp.body)

\* http.Client follows the redirects a server answers with, MaxRedirects of
\* them here, each to one of these locations.
MaxRedirects == 1

Locations ==
    { <<"h", "t", "t", "p", ":", "/", "/", "1", "6", "9", ".", "2", "5", "4", ".", "1", "6", "9", ".", "2", "5", "4", "/", "l", "a", "t", "e", "s", "t", "/", "m", "e", "t", "a", "-", "d", "a", "t", "a", "/">>,
      <<"h", "t", "t", "p", "s", ":", "/", "/", "e", ".", "c", "o", "m", "/", "l", "o", "g", "i", "n">> }

RedirectChains == UNION {[1..n -> Locations] : n \in 0..MaxRedirects}

ServerResponses ==
    { Response(Headers([k \in {<<"S", "e", "t", "-", "C", "o", "o", "k", "i", "e">>, <<"C", "o", "n", "t", "e", "n", "t", "-", "T", "y", "p", "e">>} |->
                          IF k = <<"S", "e", "t", "-", "C", "o", "o", "k", "i", "e">> THEN <<"s", "i", "d", "=", "1">> ELSE <<"t", "e", "x", "t", "/", "p", "l", "a", "i", "n">>]), "ok"),
      Response(Headers([k \in {<<"C", "o", "n", "t", "e", "n", "t", "-", "T", "y", "p", "e">>} |-> <<"t", "e", "x", "t", "/", "p", "l", "a", "i", "n">>]), "ok") }

\* What Client.Do sends and returns: nothing sent for a url validateURL
\* rejects; else the request, the requests of the redirects followed, and a
\* response or a transport error (no response).
ClientDo(url) ==
    IF validateURL(url).err # "" THEN {[sent |-> <<>>, resp |-> NoResponse]}
    ELSE {[sent |-> <<url>> \o chain, resp |-> resp] :
             chain \in RedirectChains, resp \in ServerResponses \cup {NoResponse}}

ArgURLs ==
    { <<"a", "p", "i", "/", "u", "s", "e", "r", "s">>,
      <<"m", "e", "t", "a", "/", "l", "a", "t", "e", "s", "t", "/", "m", "e", "t", "a", "-", "d", "a", "t", "a", "/">>,
      <<"h", "t", "t", "p", ":", "/", "/", "1", "0", ".", "0", ".", "0", ".", "5", "/", "x">>,
      <<"h", "t", "t", "p", ":", "/", "/", "1", "6", "9", ".", "2", "5", "4", ".", "1", "6", "9", ".", "2", "5", "4", "/", "l", "a", "t", "e", "s", "t">> }

HeaderFlagLists ==
    { <<>>,
      << <<"A", "u", "t", "h", "o", "r", "i", "z", "a", "t", "i", "o", "n", ":", " ", "B", "e", "a", "r", "e", "r", " ", "t", "0", "k", "3", "n">>,
         <<"A", "c", "c", "e", "p", "t", ":", " ", "*", "/", "*">> >>,
      << <<"X", "-", "A", "P", "I", "-", "K", "e", "y", ":", "k", "1">>,
         <<"x", "-", "a", "p", "i", "-", "k", "e", "y", " ", ":", " ", "k", "2">>,
         <<"b", "r", "o", "k", "e", "n">> >> }

Commands ==
    {[NoCommand EXCEPT !.kind = "request", !.url = u, !.flags = f,
                       !.noHistory = n, !.collection = c] :
        u \in ArgURLs, f \in HeaderFlagLists, n \in BOOLEAN, c \in {"", "mycol"}}
    \cup
    {[NoCommand EXCEPT !.kind = "collection add", !.url = u, !.flags = f,
                       !.collection = "mycol", !.name = "added"] :
        u \in ArgURLs, f \in HeaderFlagLists}
    \cup
    {[NoCommand EXCEPT !.kind = "collection run", !.collection = c] :
        c \in {"mycol", "other"}}

\* The alias table earlier alias create commands have left.
AliasTables ==
    { <<>>,
      [n \in {<<"a", "p", "i">>, <<"m", "e", "t", "a">>} |->
          IF n = <<"a", "p", "i">> THEN <<"h", "t", "t", "p", "s", ":", "/", "/", "e", ".", "c", "o", "m", "/", "v", "1", "/">>
          ELSE <<"h", "t", "t", "p", ":", "/", "/", "1", "6", "9", ".", "2", "5", "4", ".", "1", "6", "9", ".", "2", "5", "4", "/">>] }

\* The saved requests earlier collection add commands have left.
SavedCollections ==
    { <<>>,
      << SavedRequest("mycol", "first", "GET", <<"m", "e", "t", "a", "/", "l", "a", "t", "e", "s", "t">>,
                      Headers([k \in {<<"A", "u", "t", "h", "o", "r", "i", "z", "a", "t", "i", "o", "n">>} |-> REDACTED]), ""),
         SavedRequest("mycol", "", "GET", <<"h", "t", "t", "p", ":", "/", "/", "1", "0", ".", "0", ".", "0", ".", "5", "/", "x">>, EmptyHeaders, ""),
         SavedRequest("mycol", "third", "GET", <<"a", "p", "i", "/", "u", "s", "e", "r", "s">>, EmptyHeaders, "") >>,
      << SavedRequest("mycol", "first", "GET", <<"m", "e", "t", "a", "/", "l", "a", "t", "e", "s", "t">>,
                      Headers([k \in {<<"A", "u", "t", "h", "o", "r", "i", "z", "a", "t", "i", "o", "n">>} |-> REDACTED]), ""),
         SavedRequest("mycol", "", "GET", <<"h", "t", "t", "p", ":", "/", "/", "1", "0", ".", "0", ".", "0", ".", "5", "/", "x">>, EmptyHeaders, "") >> }

\* The collections table that goes with the saved requests: their
\* collections, alone or with one that holds no request.
CollectionTables(saved) ==
    LET named == {saved[i].collection : i \in DOMAIN saved}
    IN  {named, named \cup {"other"}}

\* history.json as a version of the program without the database left it.
LegacyFiles ==
    { NoFile,
      Document(<< Request(0, 0, <<"h", "t", "t", "p", "s", ":", "/", "/", "e", ".", "c", "o", "m", "/", "o", "l", "d">>,
                          Headers([k \in {<<"A", "u", "t", "h", "o", "r", "i", "z", "a", "t", "i", "o", "n">>} |-> <<"t", "0", "k", "3", "n">>]),
                          "", NoResponse) >>) }

InitCommand ==
    /\ RedactIdle
    /\ ValidateIdle
    /\ LaterIdle
    /\ jsonHistory \in LegacyFiles
    /\ sqlHistory = <<>>
    /\ tieOrder = "oldest first"
    /\ clock = 0
    /\ nextId = 1
    /\ addLog = EmptyLog
    /\ last = NoCall
    /\ steps = [calls |-> 0, irregular |-> 0]
    /\ pc = "main"
    /\ cmd \in Commands
    /\ aliases \in AliasTables
    /\ collections \in SavedCollections
    /\ colNames \in CollectionTables(collections)
    /\ heap = <<>>
    /\ handed = <<>>
    /\ wire = <<>>
    /\ printed = <<>>

\* What no command changes.
still == <<tieOrder, addLog, last, steps, aliases, redactVars, urlVars, laterVars>>

frame == <<still, printed>>

\* A line a command prints: about an item of a collection run, or (item 0)
\* about the command.
Line(item, text) == [item |-> item, text |-> text]

\* runRequest: the alias is resolved and the -H flags are parsed.
RequestResolve ==
    /\ pc = "main" /\ cmd.kind = "request"
    /\ \E opened \in BOOLEAN :
         LET full == HasPrefix(cmd.url, http \o <<":", "/", "/">>)
                       \/ HasPrefix(cmd.url, https \o <<":", "/", "/">>)
             store == NewStorage(opened /\ ~full)
         IN  /\ cmd' = [cmd EXCEPT !.url = resolveAlias(cmd.url, aliases, opened),
                                   !.headerMap = Len(heap) + 1]
             /\ sqlHistory' = store.rows
             /\ jsonHistory' = store.file
    /\ heap' = Append(heap, parseHeaders(cmd.flags))
    /\ pc' = "client.Do"
    /\ UNCHANGED <<clock, nextId, collections, colNames, handed, wire, frame>>

\* runRequest going on to saveToHistory after an error of client.Do.
RequestDoGoingOn ==
    /\ pc = "client.Do"
    /\ handed' = Append(handed, [url |-> cmd.url, headers |-> heap[cmd.headerMap]])
    /\ \E done \in ClientDo(cmd.url) :
         /\ wire' = wire \o done.sent
         /\ cmd' = [cmd EXCEPT !.resp = done.resp]
         /\ printed' = Append(printed, Line(0, IF done.resp.present THEN "response"
                                                ELSE "Request failed"))
         /\ pc' = "saveToHistory"
    /\ UNCHANGED <<jsonHistory, sqlHistory, clock, nextId, collections, colNames, heap, still>>

\* runRequest: client.Do(method, url, headerMap, body); an error is printed
\* and ends the command, a response is printed.
RequestDo ==
    /\ pc = "client.Do"
    /\ handed' = Append(handed, [url |-> cmd.url, headers |-> heap[cmd.headerMap]])
    /\ \E done \in ClientDo(cmd.url) :
         /\ wire' = wire \o done.sent
         /\ cmd' = [cmd EXCEPT !.resp = done.resp]
         /\ printed' = Append(printed, Line(0, IF done.resp.present THEN "response"
                                                ELSE "Request failed"))
         /\ pc' = IF done.resp.present THEN "saveToHistory" ELSE "exit 1"
    /\ UNCHANGED <<jsonHistory, sqlHistory, clock, nextId, collections, colNames, heap, still>>

\* saveToHistory ending the command when the record is not stored.
RequestHistoryFailing ==
    /\ pc = "saveToHistory"
    /\ \E outcome \in {"stored", "NewStorage failed", "AddToHistory failed"} :
         LET store == NewStorage(TRUE)
             target == MakeMap(heap, cmd.headerMap)
             maps == Store(heap, target, filterSensitiveHeaders(heap[cmd.headerMap]))
             req == Request(nextId, clock + 1, cmd.url, maps[target], "",
                            filteredResp(cmd.resp))
         IN  IF cmd.noHistory \/ outcome = "NewStorage failed"
             THEN UNCHANGED <<jsonHistory, sqlHistory, clock, nextId, heap>>
             ELSE /\ heap' = maps
                  /\ jsonHistory' = store.file
                  /\ clock' = clock + 1
                  /\ nextId' = nextId + 1
                  /\ sqlHistory' = IF outcome = "stored"
                                   THEN SQLiteAddToHistory(store.rows, req, tieOrder)
                                   ELSE store.rows
    /\ pc' = IF cmd.noHistory \/ sqlHistory' # NewStorage(TRUE).rows
             THEN "saveToCollection" ELSE "exit 1"
    /\ UNCHANGED <<cmd, collections, colNames, handed, wire, frame>>

\* runRequest: saveToHistory unless --no-history.  It returns without a
\* word when the store cannot be opened, and ignores a failed AddToHistory.
RequestHistory ==
    /\ pc = "saveToHistory"
    /\ \E outcome \in {"stored", "NewStorage failed", "AddToHistory failed"} :
         LET store == NewStorage(TRUE)
             target == MakeMap(heap, cmd.headerMap)
             maps == Store(heap, target, filterSensitiveHeaders(heap[cmd.headerMap]))
             req == Request(nextId, clock + 1, cmd.url, maps[target], "",
                            filteredResp(cmd.resp))
         IN  IF cmd.noHistory \/ outcome = "NewStorage failed"
             THEN UNCHANGED <<jsonHistory, sqlHistory, clock, nextId, heap>>
             ELSE /\ heap' = maps
                  /\ jsonHistory' = store.file
                  /\ clock' = clock + 1
                  /\ nextId' = nextId + 1
                  /\ sqlHistory' = IF outcome = "stored"
                                   THEN SQLiteAddToHistory(store.rows, req, tieOrder)
                                   ELSE store.rows
    /\ pc' = "saveToCollection"
    /\ UNCHANGED <<cmd, collections, colNames, handed, wire, frame>>

\* runRequest: saveRequestToCollection when --collection is given.
RequestCollection ==
    /\ pc = "saveToCollection"
    /\ \E opened \in BOOLEAN :
         LET store == NewStorage(TRUE)
             req == SavedRequest(cmd.collection, "", "GET", cmd.url,
                                 heap[cmd.headerMap], "")
         IN  IF cmd.collection = "" \/ ~opened
             THEN UNCHANGED <<jsonHistory, sqlHistory, collections, colNames>>
             ELSE /\ jsonHistory' = store.file
                  /\ sqlHistory' = store.rows
                  /\ collections' = AddToCollection(collections, req)
                  /\ colNames' = colNames \cup {cmd.collection}
    /\ pc' = "exit 0"
    /\ UNCHANGED <<cmd, clock, nextId, heap, handed, wire, frame>>

\* runCollectionAdd
CollectionAdd ==
    /\ pc = "main" /\ cmd.kind = "collection add"
    /\ \E opened \in BOOLEAN :
         LET parsed == Append(heap, parseHeaders(cmd.flags))
             headerMap == Len(parsed)
             target == MakeMap(parsed, headerMap)
             maps == Store(parsed, target, filterSensitiveHeaders(parsed[headerMap]))
             store == NewStorage(TRUE)
             req == SavedRequest(cmd.collection, cmd.name, "GET", cmd.url, maps[target], "")
         IN  /\ heap' = maps
             /\ cmd' = [cmd EXCEPT !.headerMap = headerMap]
             /\ IF opened
                THEN /\ jsonHistory' = store.file
                     /\ sqlHistory' = store.rows
                     /\ collections' = AddToCollection(collections, req)
                     /\ colNames' = colNames \cup {cmd.collection}
                     /\ pc' = "exit 0"
                ELSE /\ UNCHANGED <<jsonHistory, sqlHistory, collections, colNames>>
                     /\ pc' = "exit 1"
    /\ UNCHANGED <<clock, nextId, handed, wire, frame>>

\* collection run stopping at the first request that fails.
CollectionRunItemStopping ==
    /\ pc = "item"
    /\ \E opened \in BOOLEAN :
         LET col == GetCollection(collections, cmd.collection)
             req == col[cmd.item]
             resolvedURL == resolveAlias(req.url, aliases, opened)
         IN  /\ handed' = Append(handed, [url |-> resolvedURL, headers |-> req.headers])
             /\ \E done \in ClientDo(resolvedURL) :
                  LET line == Line(cmd.item, IF done.resp.present THEN "response"
                                            ELSE "Request failed")
                      final == cmd.item = Len(col)
                  IN  /\ wire' = wire \o done.sent
                      /\ printed' = IF done.resp.present /\ final
                                    THEN printed \o <<line, Line(0, "Completed")>>
                                    ELSE Append(printed, line)
                      /\ IF ~done.resp.present THEN pc' = "exit 1" /\ UNCHANGED cmd
                         ELSE IF final THEN pc' = "exit 0" /\ UNCHANGED cmd
                         ELSE pc' = "item" /\ cmd' = [cmd EXCEPT !.item = cmd.item + 1]
    /\ UNCHANGED <<jsonHistory, sqlHistory, clock, nextId, collections, colNames, heap, still>>

\* collection run saving every response to the history, as runRequest does.
CollectionRunItemSaving ==
    /\ pc = "item"
    /\ \E opened \in BOOLEAN :
         LET col == GetCollection(collections, cmd.collection)
             req == col[cmd.item]
             resolvedURL == resolveAlias(req.url, aliases, opened)
         IN  /\ handed' = Append(handed, [url |-> resolvedURL, headers |-> req.headers])
             /\ \E done \in ClientDo(resolvedURL) :
                  LET line == Line(cmd.item, IF done.resp.present THEN "response"
                                            ELSE "Request failed")
                      record == Request(nextId, clock + 1, resolvedURL, req.headers, "",
                                        filteredResp(done.resp))
                  IN  /\ wire' = wire \o done.sent
                      /\ printed' = IF cmd.item < Len(col) THEN Append(printed, line)
                                    ELSE printed \o <<line, Line(0, "Completed")>>
                      /\ sqlHistory' = IF done.resp.present
                                       THEN SQLiteAddToHistory(sqlHistory, record, tieOrder)
                                       ELSE sqlHistory
             /\ IF cmd.item < Len(col)
                THEN pc' = "item" /\ cmd' = [cmd EXCEPT !.item = cmd.item + 1]
                ELSE pc' = "exit 0" /\ UNCHANGED cmd
    /\ clock' = clock + 1
    /\ nextId' = nextId + 1
    /\ UNCHANGED <<jsonHistory, collections, colNames, heap, still>>

\* collection run taking a collection without requests for a missing one.
CollectionRunLoadConflating ==
    /\ pc = "main" /\ cmd.kind = "collection run"
    /\ \E outcome \in {"loaded", "NewStorage failed", "GetCollection failed"} :
         LET store == NewStorage(outcome # "NewStorage failed")
             error == IF outcome # "loaded" THEN "Failed to load collection"
                      ELSE IF GetCollection(collections, cmd.collection) = <<>> THEN "not found"
                      ELSE ""
         IN  /\ jsonHistory' = store.file
             /\ sqlHistory' = store.rows
             /\ IF error = ""
                THEN pc' = "item" /\ cmd' = [cmd EXCEPT !.item = 1] /\ UNCHANGED printed
                ELSE pc' = "exit 1" /\ UNCHANGED cmd /\ printed' = Append(printed, Line(0, error))
    /\ UNCHANGED <<clock, nextId, collections, colNames, heap, handed, wire, still>>

\* runCollectionRun: the collection is loaded; a store that cannot be read,
\* no such collection or an empty one ends the command.
CollectionRunLoad ==
    /\ pc = "main" /\ cmd.kind = "collection run"
    /\ \E outcome \in {"loaded", "NewStorage failed", "GetCollection failed"} :
         LET store == NewStorage(outcome # "NewStorage failed")
             error == IF outcome # "loaded" THEN "Failed to load collection"
                      ELSE IF cmd.collection \notin colNames THEN "not found"
                      ELSE IF GetCollection(collections, cmd.collection) = <<>> THEN "is empty"
                      ELSE ""
         IN  /\ jsonHistory' = store.file
             /\ sqlHistory' = store.rows
             /\ IF error = ""
                THEN pc' = "item" /\ cmd' = [cmd EXCEPT !.item = 1] /\ UNCHANGED printed
                ELSE pc' = "exit 1" /\ UNCHANGED cmd /\ printed' = Append(printed, Line(0, error))
    /\ UNCHANGED <<clock, nextId, collections, colNames, heap, handed, wire, still>>

\* runCollectionRun: one request of the collection; an error is printed and
\* the loop goes on.  After the last one the run is reported as completed.
CollectionRunItem ==
    /\ pc = "item"
    /\ \E opened \in BOOLEAN :
         LET col == GetCollection(collections, cmd.collection)
             req == col[cmd.item]
             resolvedURL == resolveAlias(req.url, aliases, opened)
         IN  /\ handed' = Append(handed, [url |-> resolvedURL, headers |-> req.headers])
             /\ \E done \in ClientDo(resolvedURL) :
                  LET line == Line(cmd.item, IF done.resp.present THEN "response"
                                            ELSE "Request failed")
                  IN  /\ wire' = wire \o done.sent
                      /\ printed' = IF cmd.item < Len(col) THEN Append(printed, line)
                                    ELSE printed \o <<line, Line(0, "Completed")>>
             /\ IF cmd.item < Len(col)
                THEN pc' = "item" /\ cmd' = [cmd EXCEPT !.item = cmd.item + 1]
                ELSE pc' = "exit 0" /\ UNCHANGED cmd
    /\ UNCHANGED <<jsonHistory, sqlHistory, clock, nextId, collections, colNames, heap, still>>

NextCommand ==
    \/ RequestResolve
    \/ RequestDo
    \/ RequestHistory
    \/ RequestCollection
    \/ CollectionAdd
    \/ CollectionRunLoad
    \/ CollectionRunItem

SpecCommand == InitCommand /\ [][NextCommand]_vars

----------------------------------------------------------------------------
(* Claims about what a command stores and sends.                           *)

\* Every header with a sensitive key has the marker as its value.
Redacted(headers) ==
    \A k \in DOMAIN headers.map : Sensitive(k) => headers.map[k] = REDACTED

\* A header with a sensitive key has another value than the marker.
HoldsSecret(headers) ==
    \E k \in DOMAIN headers.map : Sensitive(k) /\ headers.map[k] # REDACTED

\* The records of the history table a request command committed; the records
\* of history.json a migration copied have identifier 0.
Committed ==
    {RowRequest(sqlHistory[i]) : i \in {j \in 1..Len(sqlHistory) : sqlHistory[j].id >= 1}}

\* C4: every record a request command commits to the history has the marker
\* as the value of each request header and each response header with a
\* sensitive key.
C4_HistoryRedacted ==
    \A r \in Committed :
        /\ Redacted(r.headers)
        /\ r.response.present => Redacted(r.response.headers)

C4_Witness ==
    /\ Len(handed) = 1 /\ HoldsSecret(handed[1].headers)
    /\ cmd.resp.present /\ HoldsSecret(cmd.resp.headers)
    /\ \E r \in Committed :
          /\ DOMAIN r.headers.map = DOMAIN handed[1].headers.map
          /\ r.headers.map # handed[1].headers.map
          /\ r.response.present
          /\ DOMAIN r.response.headers.map = DOMAIN cmd.resp.headers.map
          /\ r.response.headers.map # cmd.resp.headers.map

\* C5 as claimed: every saved request of a collection, whether collection
\* add or the --collection option of a request command stored it, has the
\* marker as the value of each header with a sensitive key.
C5_AsClaimed == \A i \in 1..Len(collections) : Redacted(collections[i].headers)

\* C8: Client.Do is handed the headers as parsed from the -H flags, and the
\* map the request command parsed them into still holds them after the
\* history record is stored.
C8_WireGetsOriginal ==
    cmd.kind = "request" =>
        /\ \A i \in 1..Len(handed) : handed[i].headers = parseHeaders(cmd.flags)
        /\ pc # "main" => heap[cmd.headerMap] = parseHeaders(cmd.flags)

C8_Witness ==
    /\ cmd.kind = "request"
    /\ pc = "exit 0"
    /\ Len(handed) = 1 /\ HoldsSecret(handed[1].headers)
    /\ HoldsSecret(heap[cmd.headerMap])
    /\ \E r \in Committed : r.headers.map # handed[1].headers.map

\* C10 as claimed: no request is ever sent to a URL whose hostname is a
\* denylisted metadata host.
C10_AsClaimed ==
    \A i \in 1..Len(wire) :
        ToLower(Hostname(Parse(wire[i]).Host)) \notin DenylistedHosts

\* The request Client.Do itself sends goes to the URL it validated, the
\* resolved one: a request to a denylisted host is one of a redirect.
FirstRequestValidated ==
    \A i \in 1..Len(wire) :
        ToLower(Hostname(Parse(wire[i]).Host)) \in DenylistedHosts =>
            i > 1 /\ wire[i] \in Locations

\* ---------------------------------------------------------------------------
\* resolveAlias on its own: the argument is written from a leading text
\* without "/", a run of "/" and a remainder that does not start with "/".

MaxSlashes == 3

Slashes(n) == [i \in 1..n |-> "/"]

Leads == {<<"a", "p", "i">>, <<"m", "e", "t", "a">>, <<"o", "t", "h", "e", "r">>, <<"h", "t", "t", "p", ":">>, <<"h", "t", "t", "p", "s", ":">>, <<"H", "T", "T", "P", ":">>, <<>>}

Rests == {<<>>, <<"u", "s", "e", "r", "s">>, <<"u", "s", "e", "r", "s", "/", "1", "/">>}

AliasArgs ==
    {a \in [lead : Leads, slashes : 0..MaxSlashes, rest : Rests] :
        a.slashes = 0 => a.rest = <<>>}

\* The argument as the command line carries it.
Written(a) == a.lead \o Slashes(a.slashes) \o a.rest

\* The alias tables resolveAlias is tried against: bases without, with one
\* and with two trailing "/", and names that look like a scheme.
ResolveTables ==
    AliasTables \cup
    { [n \in {<<"a", "p", "i">>, <<"h", "t", "t", "p", ":">>, <<"h", "t", "t", "p", "s", ":">>} |->
          IF n = <<"a", "p", "i">> THEN <<"h", "t", "t", "p", "s", ":", "/", "/", "e", ".", "c", "o", "m", "/", "v", "1">> ELSE <<"h", "t", "t", "p", "s", ":", "/", "/", "p", "r", "o", "x", "y", ".", "e", "x", "a", "m", "p", "l", "e", "/">>],
      [n \in {<<"a", "p", "i">>, <<"H", "T", "T", "P", ":">>, <<>>} |->
          IF n = <<"a", "p", "i">> THEN <<"h", "t", "t", "p", "s", ":", "/", "/", "e", ".", "c", "o", "m", "/", "v", "1", "/", "/">>
          ELSE IF n = <<>> THEN <<"h", "t", "t", "p", "s", ":", "/", "/", "r", "o", "o", "t", ".", "e", "x", "a", "m", "p", "l", "e">>
          ELSE <<"h", "t", "t", "p", "s", ":", "/", "/", "u", "p", "p", "e", "r", ".", "e", "x", "a", "m", "p", "l", "e", "/">>] }

InitResolve ==
    /\ HistoryIdle
    /\ RedactIdle
    /\ ValidateIdle
    /\ pc = "shell"
    /\ cmd = NoCommand
    /\ aliases \in ResolveTables
    /\ collections = <<>>
    /\ heap = <<>>
    /\ handed = <<>>
    /\ wire = <<>>
    /\ colNames = {}
    /\ printed = <<>>
    /\ aliasArg \in AliasArgs
    /\ resolved = NotResolved
    /\ MigrateIdle
    /\ CollectionsIdle
    /\ FinalIdle

\* One call of resolveAlias; NewStorage inside it succeeds or fails.
Resolve ==
    /\ ~resolved.done
    /\ \E opened \in BOOLEAN :
         resolved' = [done |-> TRUE,
                      url |-> resolveAlias(Written(aliasArg), aliases, opened),
                      opened |-> opened]
    /\ UNCHANGED <<aliasArg, histVars, redactVars, urlVars, cmdVars, migrateVars, colVars, finalVars>>

NextResolve == Resolve

SpecResolve == InitResolve /\ [][NextResolve]_vars

\* The argument is a full URL for resolveAlias.
IsFullURL(a) == a.lead \in {<<"h", "t", "t", "p", ":">>, <<"h", "t", "t", "p", "s", ":">>} /\ a.slashes >= 2

\* The candidate alias name is a key of the alias table.
KnownAlias(a) == a.lead \in DOMAIN aliases

\* C11: resolveAlias returns its argument unchanged when the argument starts
\* with http:// or https://, whatever the alias table holds, and when the
\* text before its first "/" is not a key of the alias table.
C11_ResolveIdentity ==
    (resolved.done /\ (IsFullURL(aliasArg) \/ ~KnownAlias(aliasArg)))
        => resolved.url = Written(aliasArg)

\* A full URL whose text before the first "/" is an alias name was resolved
\* with the store open.
C11_Witness ==
    /\ resolved.done /\ resolved.opened
    /\ IsFullURL(aliasArg) /\ KnownAlias(aliasArg)
    /\ aliasArg.rest # <<>>

\* s without the "/" it ends with, all of them.
WithoutTrailingSlashes(s) ==
    SubSeq(s, 1, CHOOSE i \in 0..Len(s) :
                     /\ \A j \in (i + 1)..Len(s) : s[j] = "/"
                     /\ i = 0 \/ s[i] # "/")

\* s without one "/" at its end, if it has one.
WithoutOneTrailingSlash(s) ==
    IF s # <<>> /\ s[Len(s)] = "/" THEN SubSeq(s, 1, Len(s) - 1) ELSE s

Joined(base, suffix) == IF suffix = <<>> THEN base ELSE base \o <<"/">> \o suffix

\* The path suffix of the argument without one leading "/": the first "/" of
\* the argument separates the name, the second is the one stripped.
SuffixLessOne(a) == Slashes(IF a.slashes > 2 THEN a.slashes - 2 ELSE 0) \o a.rest

TheCollection == GetCollection(collections, cmd.collection)

\* The collection run commands on their own.
InitBatch == InitCommand /\ cmd.kind = "collection run"

NextBatch == CollectionRunLoad \/ CollectionRunItem

\* What a step of CollectionRunItem does to the position in the loop; no
\* other step leaves "item".
ItemDone ==
    /\ pc = "item"
    /\ IF cmd.item < Len(TheCollection)
       THEN pc' = "item" /\ cmd' = [cmd EXCEPT !.item = cmd.item + 1]
       ELSE pc' = "exit 0" /\ cmd' = cmd

\* runCollectionRun is one sequential loop and every client.Do returns, with
\* a response or with an error, within the Timeout of the http.Client: an
\* item that is due is run.
SpecBatchFair == InitBatch /\ [][NextBatch]_vars /\ WF_<<pc, cmd>>(ItemDone)

ItemLines == LET AboutItem(l) == l.item # 0 IN SelectSeq(printed, AboutItem)

\* The first n requests of the collection, and no others, were handed to
\* client.Do, once each and in their order, and each has its line.
Attempted(n) ==
    /\ Len(handed) = n
    /\ Len(ItemLines) = n
    /\ \A i \in 1..n :
         /\ handed[i].headers = TheCollection[i].headers
         /\ handed[i].url \in {TheCollection[i].url,
                               resolveAlias(TheCollection[i].url, aliases, TRUE)}
         /\ ItemLines[i].item = i

RunningBatch == cmd.kind = "collection run" /\ pc = "item"

BatchCompleted ==
    /\ cmd.kind = "collection run" /\ pc = "exit 0"
    /\ Attempted(Len(TheCollection))
    /\ printed[Len(printed)] = Line(0, "Completed")

\* C13: collection run on a collection that holds requests hands every one
\* of them to client.Do once, in position order, and reaches its end: a
\* request that fails, blocked or on the network, has its error printed and
\* the next ones are still run, also when all of them fail.
C13_BatchRunsToEnd ==
    /\ [](RunningBatch => Attempted(cmd.item - 1))
    /\ []((cmd.kind = "collection run" /\ handed # <<>>) => pc # "exit 1")
    /\ [](cmd.kind = "collection run" /\ pc = "exit 0" => BatchCompleted)
    /\ (RunningBatch ~> BatchCompleted)

\* A run of three requests ended: the first was blocked, the second failed
\* on the network, the third was answered.
C13_Witness ==
    /\ BatchCompleted
    /\ Len(TheCollection) = 3
    /\ isCloudMetadataEndpoint(Hostname(Parse(handed[1].url).Host))
    /\ ItemLines[1].text = "Request failed"
    /\ validateURL(handed[2].url).err = ""
    /\ ItemLines[2].text = "Request failed"
    /\ ItemLines[3].text = "response"

StoreWasRead == Line(0, "Failed to load collection") \notin Range(printed)

FailedBeforeAnyRequest(error) ==
    /\ pc = "exit 1"
    /\ printed = <<Line(0, error)>>
    /\ handed = <<>>
    /\ wire = <<>>

\* C14: once collection run has read the store, a name that is not in the
\* collections table has ended it with the not-found error and a collection
\* without requests with the is-empty error, and in both cases nothing was
\* handed to client.Do or sent.
C14_BatchFailsFast ==
    (cmd.kind = "collection run" /\ pc # "main" /\ StoreWasRead) =>
        /\ cmd.collection \notin colNames => FailedBeforeAnyRequest("not found")
        /\ (cmd.collection \in colNames /\ TheCollection = <<>>)
               => FailedBeforeAnyRequest("is empty")

\* collection run ended on a collection that exists and holds no request.
C14_Witness ==
    /\ cmd.kind = "collection run" /\ pc = "exit 1"
    /\ cmd.collection \in colNames
    /\ TheCollection = <<>>
    /\ collections # <<>>
    /\ printed = <<Line(0, "is empty")>>

\* What the history command shows: NewStorage, then LoadHistory.
HistoryShown ==
    SQLiteLoadHistory(migrateFromJSON(sqlHistory, colNames, aliases, jsonHistory, tieOrder).rows)

MaxStartups == 2

Documents == {"history", "collections", "aliases"}

\* What the writes of one replay come to: all of them succeed, only the
\* first one does (for the one alias of aliases.json, that is all), none
\* does.
WriteOutcomes == {"all", "part", "none"}

\* The four tables of Backend B.
Tables(rows, names, saved, table) ==
    [rows |-> rows, names |-> names, saved |-> saved, table |-> table]

\* The three legacy documents.
Files(h, c, a) == [history |-> h, collections |-> c, aliases |-> a]

\* One of the three COUNT(*) is above zero.
HoldsRows(b) == b.rows # <<>> \/ b.names # {} \/ DOMAIN b.table # {}

Succeeding(items, outcome) ==
    IF outcome = "all" THEN items
    ELSE IF outcome = "part" THEN Take(items, 1)
    ELSE <<>>

\* history.json: read, parsed, each record added, the file renamed.
migrateHistoryFile(s, bad, writes, renames, ties) ==
    LET doc == s.files.history
        reqs == Succeeding(doc.requests, writes["history"])
    IN  IF doc.exists /\ "history" \notin bad /\ doc.requests # <<>>
        THEN [b |-> [s.b EXCEPT !.rows = AddAll(s.b.rows, reqs, ties)],
              files |-> [s.files EXCEPT !.history = IF renames["history"] THEN NoFile ELSE doc],
              read |-> s.read \cup {"history"},
              wrote |-> s.wrote \cup (IF reqs # <<>> THEN {"history"} ELSE {})]
        ELSE s

\* collections.json replayed without the CreateCollection calls.
migrateCollectionsAddingOnly(s, bad, writes, renames) ==
    LET doc == s.files.collections
        created == {}
        added == Succeeding(doc.requests, writes["collections"])
    IN  IF doc.exists /\ "collections" \notin bad /\ doc.names # {}
        THEN [b |-> [s.b EXCEPT !.names = @ \cup created
                                           \cup {added[i].collection : i \in DOMAIN added},
                                !.saved = @ \o added],
              files |-> [s.files EXCEPT !.collections =
                            IF renames["collections"] THEN NoCollectionsFile ELSE doc],
              read |-> s.read \cup {"collections"},
              wrote |-> s.wrote \cup (IF added # <<>> THEN {"collections"} ELSE {})]
        ELSE s

\* collections.json: each collection created and its requests added in
\* their order, the file renamed.
migrateCollectionsFile(s, bad, writes, renames) ==
    LET doc == s.files.collections
        created == IF writes["collections"] = "none" THEN {} ELSE doc.names
        added == Succeeding(doc.requests, writes["collections"])
    IN  IF doc.exists /\ "collections" \notin bad /\ doc.names # {}
        THEN [b |-> [s.b EXCEPT !.names = @ \cup created
                                           \cup {added[i].collection : i \in DOMAIN added},
                                !.saved = @ \o added],
              files |-> [s.files EXCEPT !.collections =
                            IF renames["collections"] THEN NoCollectionsFile ELSE doc],
              read |-> s.read \cup {"collections"},
              wrote |-> s.wrote \cup (IF created # {} THEN {"collections"} ELSE {})]
        ELSE s

\* aliases.json: each alias created, the file renamed.
migrateAliasesFile(s, bad, writes, renames) ==
    LET doc == s.files.aliases
        keys == IF writes["aliases"] = "none" THEN {} ELSE DOMAIN doc.table
    IN  IF doc.exists /\ "aliases" \notin bad /\ DOMAIN doc.table # {}
        THEN [b |-> [s.b EXCEPT !.table = [k \in DOMAIN s.b.table \cup keys |->
                                              IF k \in keys THEN doc.table[k] ELSE s.b.table[k]]],
              files |-> [s.files EXCEPT !.aliases =
                            IF renames["aliases"] THEN NoAliasesFile ELSE doc],
              read |-> s.read \cup {"aliases"},
              wrote |-> s.wrote \cup (IF keys # {} THEN {"aliases"} ELSE {})]
        ELSE s

NotMigrated(b, files) == [b |-> b, files |-> files, read |-> {}, wrote |-> {}]

\* migrateFromJSON looking at the history table only.
migrateCheckingHistoryOnly(b, files, bad, writes, renames, ties) ==
    IF b.rows # <<>> THEN NotMigrated(b, files)
    ELSE migrateAliasesFile(
             migrateCollectionsFile(
                 migrateHistoryFile(NotMigrated(b, files), bad, writes, renames, ties),
                 bad, writes, renames),
             bad, writes, renames)

\* migrateFromJSON returning at the first document that fails to parse or to
\* be written.
migrateStoppingAtFailure(b, files, bad, writes, renames, ties) ==
    LET Failed(d) == files[d].exists /\ (d \in bad \/ writes[d] # "all")
        h == migrateHistoryFile(NotMigrated(b, files), bad, writes, renames, ties)
        c == migrateCollectionsFile(h, bad, writes, renames)
    IN  IF HoldsRows(b) THEN NotMigrated(b, files)
        ELSE IF Failed("history") THEN h
        ELSE IF Failed("collections") THEN c
        ELSE migrateAliasesFile(c, bad, writes, renames)

\* migrateFromJSON with all three documents: nothing when a table holds a
\* row, else the three documents one after the other.
migrateFromJSONFiles(b, files, bad, writes, renames, ties) ==
    IF HoldsRows(b) THEN NotMigrated(b, files)
    ELSE migrateAliasesFile(
             migrateCollectionsFile(
                 migrateHistoryFile(NotMigrated(b, files), bad, writes, renames, ties),
                 bad, writes, renames),
             bad, writes, renames)

LegacyHistories ==
    { NoFile,
      Document(<<>>),
      Document(<< Request(1, 1, <<"h", "t", "t", "p", "s", ":", "/", "/", "e", ".", "c", "o", "m", "/", "a">>, EmptyHeaders, "", NoResponse),
                  Request(2, 2, <<"h", "t", "t", "p", "s", ":", "/", "/", "e", ".", "c", "o", "m", "/", "b">>, EmptyHeaders, "", NoResponse) >>),
      Document(<< Request(2, 2, <<"h", "t", "t", "p", "s", ":", "/", "/", "e", ".", "c", "o", "m", "/", "b">>, EmptyHeaders, "", NoResponse),
                  Request(1, 1, <<"h", "t", "t", "p", "s", ":", "/", "/", "e", ".", "c", "o", "m", "/", "a">>, EmptyHeaders, "", NoResponse) >>) }

LegacyCollections ==
    { NoCollectionsFile,
      [exists |-> TRUE, names |-> {"mycol", "empty"},
       requests |-> << SavedRequest("mycol", "one", "GET", <<"a", "p", "i", "/", "u", "s", "e", "r", "s">>, EmptyHeaders, ""),
                       SavedRequest("mycol", "two", "GET", <<"h", "t", "t", "p", "s", ":", "/", "/", "e", ".", "c", "o", "m", "/", "b">>, EmptyHeaders, "") >>] }

LegacyAliases ==
    { NoAliasesFile,
      [exists |-> TRUE,
       table |-> [n \in {<<"a", "p", "i">>} |-> <<"h", "t", "t", "p", "s", ":", "/", "/", "e", ".", "c", "o", "m", "/", "v", "1">>]] }

NewAlias == [n \in {<<"n", "e", "w">>} |-> <<"h", "t", "t", "p", "s", ":", "/", "/", "n", "e", "w", ".", "e", "x", "a", "m", "p", "l", "e">>]

\* A data directory with legacy documents, some of them not parsable, and a
\* database that is empty or holds an alias.
InitMigrate ==
    /\ RedactIdle
    /\ ValidateIdle
    /\ ResolveIdle
    /\ jsonHistory \in LegacyHistories
    /\ sqlHistory = <<>>
    /\ tieOrder = "oldest first"
    /\ clock = 0
    /\ nextId = 1
    /\ addLog = EmptyLog
    /\ last = NoCall
    /\ steps = [calls |-> 0, irregular |-> 0]
    /\ pc = "shell"
    /\ cmd = NoCommand
    /\ aliases \in {<<>>, NewAlias}
    /\ collections = <<>>
    /\ colNames = {}
    /\ heap = <<>>
    /\ handed = <<>>
    /\ wire = <<>>
    /\ printed = <<>>
    /\ jsonCollections \in LegacyCollections
    /\ jsonAliases \in LegacyAliases
    /\ unparsable \in SUBSET {d \in Documents : Files(jsonHistory, jsonCollections, jsonAliases)[d].exists}
    /\ started = 0
    /\ replayed = NeverReplayed
    /\ lastStartup = NoStartup
    /\ CollectionsIdle
    /\ FinalIdle

notTables == <<tieOrder, clock, nextId, addLog, last, steps, pc, cmd, heap, handed, wire,
               printed, redactVars, urlVars, resolveVars, colVars, finalVars, unparsable>>

\* The legacy document is one migrateFromJSON would replay: it is there, it
\* parses and it holds something.
Replayable(files, bad, d) ==
    /\ files[d].exists
    /\ d \notin bad
    /\ CASE d = "history" -> files[d].requests # <<>>
         [] d = "collections" -> files[d].names # {}
         [] d = "aliases" -> DOMAIN files[d].table # {}

\* NewStorage: it fails before the migration, or runs it and succeeds.  The
\* writes and the renames of the documents replayed succeed or fail.
Startup ==
    /\ started < MaxStartups
    /\ started' = started + 1
    /\ \E opened \in BOOLEAN :
         LET b == Tables(sqlHistory, colNames, collections, aliases)
             files == Files(jsonHistory, jsonCollections, jsonAliases)
             due == {d \in Documents : opened /\ ~HoldsRows(b) /\ Replayable(files, unparsable, d)}
         IN  \E writes \in {w \in [Documents -> WriteOutcomes] :
                                \A d \in Documents \ due : w[d] = "all"},
                renames \in {r \in [Documents -> BOOLEAN] :
                                \A d \in Documents \ due : ~r[d]} :
               LET m == IF opened
                        THEN migrateFromJSONFiles(b, files, unparsable, writes, renames, tieOrder)
                        ELSE NotMigrated(b, files)
               IN  /\ sqlHistory' = m.b.rows
                   /\ colNames' = m.b.names
                   /\ collections' = m.b.saved
                   /\ aliases' = m.b.table
                   /\ jsonHistory' = m.files.history
                   /\ jsonCollections' = m.files.collections
                   /\ jsonAliases' = m.files.aliases
                   /\ replayed' = [d \in Documents |->
                                      replayed[d] + (IF d \in m.wrote THEN 1 ELSE 0)]
                   /\ lastStartup' =
                          [ran |-> TRUE, err |-> ~opened, held |-> HoldsRows(b),
                           files |-> files, read |-> m.read, writes |-> writes,
                           renames |-> renames, after |-> m.b, left |-> m.files]
    /\ UNCHANGED notTables

\* history clear
UserClearHistory ==
    /\ started > 0
    /\ sqlHistory # <<>>
    /\ sqlHistory' = SQLiteClearHistory(sqlHistory)
    /\ UNCHANGED <<jsonHistory, colNames, collections, aliases, jsonCollections, jsonAliases,
                   started, replayed, lastStartup, notTables>>

\* collection delete: the saved requests go with the collection.
UserDeleteCollection ==
    /\ started > 0
    /\ \E name \in colNames :
         LET Others(r) == r.collection # name
         IN  /\ colNames' = colNames \ {name}
             /\ collections' = SelectSeq(collections, Others)
    /\ UNCHANGED <<jsonHistory, sqlHistory, aliases, jsonCollections, jsonAliases,
                   started, replayed, lastStartup, notTables>>

\* alias delete
UserDeleteAlias ==
    /\ started > 0
    /\ \E name \in DOMAIN aliases :
         aliases' = [k \in DOMAIN aliases \ {name} |-> aliases[k]]
    /\ UNCHANGED <<jsonHistory, sqlHistory, colNames, collections, jsonCollections, jsonAliases,
                   started, replayed, lastStartup, notTables>>

NextMigrate ==
    \/ Startup
    \/ UserClearHistory
    \/ UserDeleteCollection
    \/ UserDeleteAlias

SpecMigrate == InitMigrate /\ [][NextMigrate]_vars

BackendB == Tables(sqlHistory, colNames, collections, aliases)

LegacyDocuments == Files(jsonHistory, jsonCollections, jsonAliases)

C17_AsClaimed == \A d \in Documents : replayed[d] <= 1

\* A document whose file was renamed is not replayed again: a second replay
\* needs the file still in place.
RenamedNeverReplayed ==
    [][\A d \in Documents : (replayed[d] > 0 /\ ~LegacyDocuments[d].exists)
                                => replayed'[d] = replayed[d]]_vars

\* The document could be migrated by the last startup: it was there, it
\* parsed and it held something.
Ready(d) == Replayable(lastStartup.files, unparsable, d)

\* All the document held is in the tables the last startup left.
AllMigrated(d) ==
    CASE d = "history" ->
             lastStartup.after.rows = AddAll(<<>>, lastStartup.files[d].requests, tieOrder)
      [] d = "collections" ->
             /\ lastStartup.after.names = lastStartup.files[d].names
             /\ lastStartup.after.saved = lastStartup.files[d].requests
      [] d = "aliases" -> lastStartup.after.table = lastStartup.files[d].table

FailedFor(d) ==
    /\ lastStartup.files[d].exists
    /\ d \in unparsable \/ lastStartup.writes[d] # "all"

MaxCollectionOps == 4

\* ---- Backend A: collections.json, loaded, changed and saved as a whole ----

\* LoadCollections: no file gives an empty map.
JSONLoadCollections(doc) == doc.map

JSONSaveCollections(map) == [exists |-> TRUE, map |-> map]

With(map, name, requests) ==
    [n \in DOMAIN map \cup {name} |-> IF n = name THEN requests ELSE map[n]]

\* CreateCollection replacing a collection that exists by an empty one.
JSONCreateCollectionAnew(doc, name) ==
    JSONSaveCollections(With(JSONLoadCollections(doc), name, <<>>))

JSONCreateCollection(doc, name) ==
    LET map == JSONLoadCollections(doc)
    IN  IF name \in DOMAIN map THEN doc
        ELSE JSONSaveCollections(With(map, name, <<>>))

JSONDeleteCollection(doc, name) ==
    LET map == JSONLoadCollections(doc)
    IN  JSONSaveCollections([n \in DOMAIN map \ {name} |-> map[n]])

NoCollection == [found |-> FALSE, requests |-> <<>>]

Collection(requests) == [found |-> TRUE, requests |-> requests]

JSONGetCollection(doc, name) ==
    LET map == JSONLoadCollections(doc)
    IN  IF name \in DOMAIN map THEN Collection(map[name]) ELSE NoCollection

JSONAddToCollection(doc, name, req) ==
    LET map == JSONLoadCollections(doc)
        col == IF name \in DOMAIN map THEN map[name] ELSE <<>>
    IN  JSONSaveCollections(With(map, name, Append(col, req)))

\* ---- Backend B: collections(id, name), saved_requests(id, collection_id,
\* position, ...) ----

CollectionIds(db, name) == {c.id : c \in {x \in db.collections : x.name = name}}

SQLiteCreateCollection(db, name) ==
    IF CollectionIds(db, name) # {} THEN db
    ELSE [db EXCEPT !.collections = @ \cup {[id |-> db.nextCollection, name |-> name]},
                    !.nextCollection = @ + 1]

\* DeleteCollection on a connection without foreign keys: the saved requests
\* of the collection stay in saved_requests.
SQLiteDeleteWithoutCascade(db, name) ==
    [db EXCEPT !.collections = {c \in @ : c.name # name}]

\* ON DELETE CASCADE takes the saved requests of the collection along.
SQLiteDeleteCollection(db, name) ==
    [db EXCEPT !.collections = {c \in @ : c.name # name},
               !.requests = {r \in @ : r.collection_id \notin CollectionIds(db, name)}]

\* The rows in the order of the index (collection_id, position), rowid last.
RECURSIVE OrderByPosition(_)
OrderByPosition(rows) ==
    IF rows = {} THEN <<>>
    ELSE LET first == CHOOSE r \in rows :
                          \A o \in rows : \/ r.position < o.position
                                          \/ r.position = o.position /\ r.id <= o.id
         IN  <<first>> \o OrderByPosition(rows \ {first})

SavedRow(row) ==
    SavedRequest(row.req.collection, row.req.name, row.req.method, row.req.url,
                 parseJSONHeaders(row.req.headers), row.req.body)

SQLiteGetCollection(db, name) ==
    LET ids == CollectionIds(db, name)
        rows == OrderByPosition({r \in db.requests : r.collection_id \in ids})
    IN  IF ids = {} THEN NoCollection
        ELSE Collection([i \in 1..Len(rows) |-> SavedRow(rows[i])])

\* AddToCollection with every request at position 0.
SQLiteAddAtPositionZero(db, name, req) ==
    LET made == SQLiteCreateCollection(db, name)
        colID == CHOOSE id \in CollectionIds(made, name) : TRUE
    IN  [made EXCEPT !.requests = @ \cup
                        {[id |-> -made.nextRequest, collection_id |-> colID, position |-> 0,
                          req |-> [req EXCEPT !.headers = MarshalHeaders(req.headers)]]},
                     !.nextRequest = @ + 1]

\* One transaction: the collection is looked up or inserted, the request is
\* inserted at MAX(position) + 1, or at 0 in a collection without requests.
SQLiteAddToCollection(db, name, req) ==
    LET made == SQLiteCreateCollection(db, name)
        colID == CHOOSE id \in CollectionIds(made, name) : TRUE
        positions == {r.position : r \in {x \in made.requests : x.collection_id = colID}}
        nextPos == IF positions = {} THEN 0
                   ELSE (CHOOSE p \in positions : \A q \in positions : q <= p) + 1
    IN  [made EXCEPT !.requests = @ \cup
                        {[id |-> made.nextRequest, collection_id |-> colID, position |-> nextPos,
                          req |-> [req EXCEPT !.headers = MarshalHeaders(req.headers)]]},
                     !.nextRequest = @ + 1]

\* ---- The operations, called on one backend or the other ----

Backends == {"A", "B"}

CollectionNames == {"mycol", "other"}

RequestsToSave(name) ==
    { SavedRequest(name, "one", "GET", <<"a", "p", "i", "/", "u", "s", "e", "r", "s">>, NilHeaders, ""),
      SavedRequest(name, "two", "POST", <<"h", "t", "t", "p", "s", ":", "/", "/", "e", ".", "c", "o", "m", "/", "b">>,
                   Headers([k \in {<<"A", "c", "c", "e", "p", "t">>} |-> <<"*", "/", "*">>]), "{}") }

InitCollections ==
    /\ HistoryIdle
    /\ tieOrder = "oldest first"
    /\ RedactIdle
    /\ ValidateIdle
    /\ CommandIdle
    /\ ResolveIdle
    /\ MigrateIdle
    /\ CollectionsIdle
    /\ FinalIdle

notCollections == <<histVars, redactVars, urlVars, cmdVars, resolveVars, migrateVars, finalVars>>

GetFrom(backend, name) ==
    IF backend = "A" THEN JSONGetCollection(jsonCols, name)
    ELSE SQLiteGetCollection(sqlCols, name)

\* The operation is called on the backend; with a storage fault (tried for
\* CreateCollection and AddToCollection) it returns an error and has changed
\* nothing.
Called(op, backend, name, fault) ==
    /\ colOps < MaxCollectionOps
    /\ colOps' = colOps + 1
    /\ lastCol' = [op |-> op, backend |-> backend, name |-> name, err |-> fault,
                   existed |-> GetFrom(backend, name).found]

CreateCollection ==
    /\ \E backend \in Backends, name \in CollectionNames, fault \in BOOLEAN :
         /\ Called("create", backend, name, fault)
         /\ jsonCols' = IF backend = "A" /\ ~fault
                        THEN JSONCreateCollection(jsonCols, name) ELSE jsonCols
         /\ sqlCols' = IF backend = "B" /\ ~fault
                       THEN SQLiteCreateCollection(sqlCols, name) ELSE sqlCols
         /\ addedTo' = IF fault \/ name \in DOMAIN addedTo[backend] THEN addedTo
                       ELSE [addedTo EXCEPT ![backend] = With(@, name, <<>>)]
    /\ UNCHANGED notCollections

SaveToCollection ==
    /\ \E backend \in Backends, name \in CollectionNames, fault \in BOOLEAN :
         \E req \in RequestsToSave(name) :
            /\ Called("add", backend, name, fault)
            /\ jsonCols' = IF backend = "A" /\ ~fault
                           THEN JSONAddToCollection(jsonCols, name, req) ELSE jsonCols
            /\ sqlCols' = IF backend = "B" /\ ~fault
                          THEN SQLiteAddToCollection(sqlCols, name, req) ELSE sqlCols
            /\ addedTo' =
                   IF fault THEN addedTo
                   ELSE [addedTo EXCEPT ![backend] =
                            With(@, name, IF name \in DOMAIN @ THEN Append(@[name], req)
                                          ELSE <<req>>)]
    /\ UNCHANGED notCollections

DeleteCollection ==
    /\ \E backend \in Backends, name \in CollectionNames :
         /\ Called("delete", backend, name, FALSE)
         /\ jsonCols' = IF backend = "A"
                        THEN JSONDeleteCollection(jsonCols, name) ELSE jsonCols
         /\ sqlCols' = IF backend = "B"
                       THEN SQLiteDeleteCollection(sqlCols, name) ELSE sqlCols
         /\ addedTo' = [addedTo EXCEPT ![backend] = [n \in DOMAIN @ \ {name} |-> @[n]]]
    /\ UNCHANGED notCollections

NextCollections ==
    \/ CreateCollection
    \/ SaveToCollection
    \/ DeleteCollection

SpecCollections == InitCollections /\ [][NextCollections]_vars

\* The saved requests by what the caller gave them: name, method, url, body.
Given(requests) ==
    [i \in DOMAIN requests |->
        [name |-> requests[i].name, method |-> requests[i].method,
         url |-> requests[i].url, body |-> requests[i].body]]

\* C19: on either backend GetCollection returns, for a collection that
\* exists, the requests of the AddToCollection calls that succeeded for it,
\* each once and in the order of the calls, one added to a missing name
\* being the first of a new collection; and nothing for a name that no call
\* has created since it was last deleted.
C19_CollectionKeepsOrder ==
    \A backend \in Backends, name \in CollectionNames :
        LET col == GetFrom(backend, name)
        IN  IF name \in DOMAIN addedTo[backend]
            THEN col.found /\ Given(col.requests) = Given(addedTo[backend][name])
            ELSE ~col.found

\* Both backends hold a collection made by its first AddToCollection, with
\* two different requests in it.
C19_Witness ==
    \A backend \in Backends :
        /\ Len(GetFrom(backend, "mycol").requests) = 2
        /\ GetFrom(backend, "mycol").requests[1].name = "two"
        /\ GetFrom(backend, "mycol").requests[2].name = "one"

StoredFor(backend, name) ==
    IF backend = "A"
    THEN IF name \in DOMAIN jsonCols.map THEN Range(jsonCols.map[name]) ELSE {}
    ELSE {r \in sqlCols.requests : r.collection_id \in CollectionIds(sqlCols, name)}

\* The rows of saved_requests whose collection is not in the table.
Orphans == {r \in sqlCols.requests :
                \A c \in sqlCols.collections : c.id # r.collection_id}

DeletedFrom(backend, name) ==
    colOps' # colOps /\ lastCol'.op = "delete" /\ lastCol'.backend = backend
                     /\ lastCol'.name = name

MadeAnew(op, backend, name) ==
    colOps' # colOps /\ lastCol'.op = op /\ lastCol'.backend = backend
                     /\ lastCol'.name = name /\ ~lastCol'.existed /\ ~lastCol'.err

\* C21: after DeleteCollection(name) on a backend, GetCollection(name) finds
\* nothing there and no saved request of the collection is stored; the other
\* collections of the backend, and the other backend, are as they were; a
\* CreateCollection for a name that is not there gives an empty collection and
\* an AddToCollection for it a collection of the one request added; no row of
\* saved_requests is ever without its collection.
C21_DeleteCascades ==
    /\ [][\A backend \in Backends, name \in CollectionNames :
            /\ DeletedFrom(backend, name) =>
                  /\ ~GetFrom(backend, name)'.found
                  /\ StoredFor(backend, name)' = {}
                  /\ \A r \in StoredFor(backend, name) :
                        r \notin UNION {StoredFor(backend, n)' : n \in CollectionNames}
                  /\ backend = "B" => sqlCols'.requests = sqlCols.requests \ StoredFor("B", name)
                  /\ \A other \in CollectionNames \ {name} :
                        GetFrom(backend, other)' = GetFrom(backend, other)
                  /\ \A b \in Backends \ {backend}, n \in CollectionNames :
                        GetFrom(b, n)' = GetFrom(b, n)
            /\ MadeAnew("create", backend, name) =>
                  GetFrom(backend, name)' = Collection(<<>>)
            /\ MadeAnew("add", backend, name) =>
                  /\ Len(GetFrom(backend, name)'.requests) = 1
                  /\ Cardinality(StoredFor(backend, name)') = 1]_vars
    /\ [](Orphans = {})

\* DeleteCollection has removed, on backend B, a collection that held saved
\* requests, while another collection holds one.
C21_Witness ==
    /\ lastCol.op = "delete" /\ lastCol.backend = "B" /\ lastCol.existed
    /\ sqlCols.nextRequest > 1 + Cardinality(sqlCols.requests)
    /\ \E other \in CollectionNames \ {lastCol.name} :
          GetFrom("B", other).requests # <<>>

----------------------------------------------------------------------------
(* Claims about the two backends taken together.                           *)

\* C22 as claimed: after the same AddToHistory calls on both backends,
\* starting from an empty history and each with an identifier of its own,
\* LoadHistory returns the same records in the same order from Backend A and
\* from Backend B.
C22_AsClaimed == (addLog.sinceEmpty /\ addLog.distinctIds) => StoredInA = LoadedFromB

\* C23: a request command that has received a response has printed it and
\* does not end with exit status 1, and its saveToHistory step, whether the
\* store opens or not and whether AddToHistory succeeds or not, prints
\* nothing and goes on to the next statement of runRequest.
C23_HistoryBestEffort ==
    /\ [](cmd.kind = "request" /\ cmd.resp.present =>
              /\ Line(0, "response") \in Range(printed)
              /\ Line(0, "Request failed") \notin Range(printed)
              /\ pc # "exit 1")
    /\ [][pc = "saveToHistory" =>
              pc' = "saveToCollection" /\ printed' = printed /\ cmd' = cmd]_vars

\* A request command without --no-history has ended with exit status 0 after
\* printing the response, and no record of it is in the history.
C23_Witness ==
    /\ cmd.kind = "request" /\ pc = "exit 0"
    /\ ~cmd.noHistory /\ cmd.resp.present
    /\ Committed = {}
    /\ Line(0, "response") \in Range(printed)

----------------------------------------------------------------------------
(* Client.Do from the dispatch of the request to its return: the timer,    *)
(* the read of the response body under the size limit, the result.         *)

\* The limit on the response body.  The code's limit is 50 * 1024 * 1024
\* bytes; the model runs the same code with the limit scaled down.
MaxResponseSize == 3

\* The wall clock runs in milliseconds up to MaxTicks.
MaxTicks == 3

Bytes == {"a", "b"}

\* The bodies a server sends: up to two bytes more than the limit.
ServedBodies == UNION {[1..n -> Bytes] : n \in 0..(MaxResponseSize + 2)}

\* io.LimitReader(resp.Body, MaxResponseSize): the reader stops at the limit.
LimitReaderAtLimit(body) == Take(body, MaxResponseSize)

\* io.LimitReader(resp.Body, MaxResponseSize+1): what can be read of the body.
limitedReader(body) == Take(body, MaxResponseSize + 1)

Event(what) == [what |-> what, at |-> now']

\* The time that passes during a step.
Passes == \E t \in {0, 1} : now + t <= MaxTicks /\ now' = now + t

InitClientDo ==
    /\ HistoryIdle
    /\ tieOrder = "oldest first"
    /\ RedactIdle
    /\ ValidateIdle
    /\ CommandIdle
    /\ ResolveIdle
    /\ MigrateIdle
    /\ CollectionsIdle
    /\ TxIdle
    /\ RaceIdle
    /\ doPc = "start"
    /\ served \in ServedBodies
    /\ respBody = <<>>
    /\ now = 0
    /\ start = 0
    /\ duration = 0
    /\ events = <<>>
    /\ returned = NotReturned

notClient == <<histVars, redactVars, urlVars, cmdVars, resolveVars, migrateVars, colVars,
              txVars, raceVars>>

\* start := time.Now(); resp, err := c.client.Do(req): the request is sent,
\* and the call returns with an error or when the headers have arrived.
DoDispatch ==
    /\ doPc = "start"
    /\ start' = now
    /\ Passes
    /\ \E ok \in BOOLEAN :
         IF ok
         THEN /\ events' = events \o <<[what |-> "start timer", at |-> now],
                                       [what |-> "dispatch", at |-> now],
                                       Event("headers")>>
              /\ doPc' = "time.Since"
              /\ UNCHANGED returned
         ELSE /\ events' = events \o <<[what |-> "start timer", at |-> now],
                                       [what |-> "dispatch", at |-> now],
                                       Event("dispatch failed")>>
              /\ doPc' = "done"
              /\ returned' = [NotReturned EXCEPT !.done = TRUE, !.err = "dispatch failed"]
    /\ UNCHANGED <<served, respBody, duration, notClient>>

\* duration := time.Since(start)
DoSince ==
    /\ doPc = "time.Since"
    /\ duration' = now - start
    /\ events' = Append(events, [what |-> "stop timer", at |-> now])
    /\ doPc' = "io.ReadAll"
    /\ UNCHANGED <<served, respBody, now, start, returned, notClient>>

\* io.ReadAll(limitedReader): one Read that returns some of the bytes left
\* before the limit, or fails.
DoRead ==
    /\ doPc = "io.ReadAll"
    /\ Len(respBody) < Len(limitedReader(served))
    /\ Passes
    /\ \E ok \in BOOLEAN :
         IF ok
         THEN /\ \E n \in (Len(respBody) + 1)..Len(limitedReader(served)) :
                    respBody' = SubSeq(limitedReader(served), 1, n)
              /\ UNCHANGED <<doPc, events, returned>>
         ELSE /\ events' = Append(events, Event("read failed"))
              /\ doPc' = "done"
              /\ returned' = [NotReturned EXCEPT !.done = TRUE, !.err = "read failed"]
              /\ UNCHANGED respBody
    /\ UNCHANGED <<served, start, duration, notClient>>

\* The reader is at its end: io.ReadAll returns, a body longer than the
\* limit is cut to the limit with a warning, and the response is returned.
DoReturn ==
    /\ doPc = "io.ReadAll"
    /\ Len(respBody) = Len(limitedReader(served))
    /\ events' = events \o <<[what |-> "body read", at |-> now], [what |-> "return", at |-> now]>>
    /\ returned' = [done |-> TRUE, err |-> "",
                    body |-> IF Len(respBody) > MaxResponseSize
                             THEN SubSeq(respBody, 1, MaxResponseSize) ELSE respBody,
                    durationMs |-> duration,
                    warned |-> Len(respBody) > MaxResponseSize]
    /\ doPc' = "done"
    /\ UNCHANGED <<served, respBody, now, start, duration, notClient>>

NextClientDo == DoDispatch \/ DoSince \/ DoRead \/ DoReturn

SpecClientDo == InitClientDo /\ [][NextClientDo]_vars

\* C24: when Client.Do returns a response, its body is the first
\* min(n, MaxResponseSize) bytes of the n bytes the server sent and the
\* warning was printed exactly when n is above the limit; when it returns an
\* error, the dispatch or a read of the body had failed, whatever n is.
C24_BodyCapped ==
    /\ (returned.done /\ returned.err = "") =>
          /\ returned.body = Take(served, MaxResponseSize)
          /\ Len(returned.body) = Min(Len(served), MaxResponseSize)
          /\ returned.warned <=> Len(served) > MaxResponseSize
    /\ (returned.done /\ returned.err # "") =>
          /\ events[Len(events)].what \in {"dispatch failed", "read failed"}
          /\ ~returned.warned

\* A response came back for a body two bytes over the limit.
C24_Witness ==
    /\ returned.done /\ returned.err = ""
    /\ Len(served) = MaxResponseSize + 2
    /\ Len(returned.body) = MaxResponseSize
    /\ returned.warned

\* Where in the call an event happened.
Position(what) == CHOOSE i \in DOMAIN events : events[i].what = what

\* C28 as claimed: when Client.Do returns a response, the timer was stopped
\* after the body had been read to its end, and the duration returned is
\* the time from the start of the timer to the end of the read.
C28_AsClaimed ==
    (returned.done /\ returned.err = "") =>
        /\ Position("start timer") < Position("headers")
        /\ Position("headers") < Position("body read")
        /\ Position("body read") < Position("stop timer")
        /\ returned.durationMs = events[Position("body read")].at - start

Migrated == lastStartup.ran /\ ~lastStartup.held /\ ~lastStartup.err

\* C25 as claimed: a legacy document of which a write of the replay failed
\* is still there under its name after the startup, as it was.
C25_AsClaimed ==
    Migrated =>
        \A d \in Documents :
            (Ready(d) /\ lastStartup.writes[d] # "all") =>
                /\ lastStartup.left[d].exists
                /\ lastStartup.left[d] = lastStartup.files[d]

\* The records have an identifier each and are not more than the log keeps.
Storable(requests) ==
    /\ Len(requests) <= HistoryLimit
    /\ \A i, j \in DOMAIN requests : requests[i].id = requests[j].id => i = j

\* What LoadHistory, GetCollection and GetAlias give after the last startup.
LoadedAfter == SQLiteLoadHistory(lastStartup.after.rows)

EveryWriteSucceeded == \A d \in Documents : Ready(d) => lastStartup.writes[d] = "all"

CollectionsKept ==
    Ready("collections") =>
        /\ lastStartup.after.names = lastStartup.files["collections"].names
        /\ \A name \in lastStartup.files["collections"].names :
              GetCollection(lastStartup.after.saved, name)
                  = GetCollection(lastStartup.files["collections"].requests, name)

AliasesKept ==
    Ready("aliases") => lastStartup.after.table = lastStartup.files["aliases"].table

----------------------------------------------------------------------------
(* SQLiteStorage.AddToHistory statement by statement: the transaction it   *)
(* opens, the insert and the eviction made in it, the commit, and the      *)
(* process ending at any point in between.                                 *)

\* The timestamps of the records passed.
MaxTxStamps == 2

\* Their identifiers: enough for a full table and a record not in it.
TxIds == 1..(HistoryLimit + 1)

\* How a call ended: the statement it was at, the number of rows the table
\* held before it and the open transaction held last, and whether the
\* identifier passed was in the table.
Outcome(how) ==
    [how |-> how, at |-> txPc, held |-> Len(txBefore), uncommitted |-> Len(txRows),
     replaced |-> txReq.id \in {row.id : row \in Range(txBefore)}]

NoRequest == PlainRequest(0, 0)

InitAtomicAdd ==
    /\ HistoryIdle
    /\ RedactIdle
    /\ ValidateIdle
    /\ CommandIdle
    /\ LaterIdle

notTx == <<jsonHistory, tieOrder, clock, nextId, addLog, last, steps,
           redactVars, urlVars, cmdVars, resolveVars, migrateVars, colVars,
           clientVars, raceVars>>

\* The deferred tx.Rollback() after a return with an error, and what the
\* engine does with the journal of a process that ended inside a
\* transaction: the statements of the transaction are undone.
Rollback(how) ==
    /\ txOutcome' = Outcome(how)
    /\ txPc' = "idle"
    /\ txRows' = <<>>
    /\ txReq' = NoRequest
    /\ txBefore' = <<>>
    /\ UNCHANGED sqlHistory

\* tx, err := s.db.Begin()
TxBegin ==
    /\ txPc = "idle"
    /\ \E id \in TxIds, timestamp \in 1..MaxTxStamps, ok \in BOOLEAN :
         IF ok
         THEN /\ txReq' = PlainRequest(id, timestamp)
              /\ txBefore' = sqlHistory
              /\ txPc' = "insert"
              /\ txRows' = sqlHistory
              /\ txOutcome' = NoOutcome
         ELSE /\ txOutcome' = [NoOutcome EXCEPT !.how = "begin failed"]
              /\ UNCHANGED <<txPc, txRows, txReq, txBefore>>
    /\ UNCHANGED <<sqlHistory, notTx>>

\* Mutant: the insert is executed on s.db, outside the transaction.
TxInsertOutsideTransaction ==
    /\ txPc = "insert"
    /\ \E ok \in BOOLEAN :
         IF ok
         THEN /\ sqlHistory' = insertHistoryRequest(sqlHistory, txReq, tieOrder)
              /\ txRows' = insertHistoryRequest(txRows, txReq, tieOrder)
              /\ txPc' = "evict"
              /\ UNCHANGED <<txReq, txBefore, txOutcome>>
         ELSE Rollback("insert failed")
    /\ UNCHANGED notTx

\* s.insertHistoryRequest(tx, req)
TxInsert ==
    /\ txPc = "insert"
    /\ \E ok \in BOOLEAN :
         IF ok
         THEN /\ txRows' = insertHistoryRequest(txRows, txReq, tieOrder)
              /\ txPc' = "evict"
              /\ UNCHANGED <<sqlHistory, txReq, txBefore, txOutcome>>
         ELSE Rollback("insert failed")
    /\ UNCHANGED notTx

\* tx.Exec(DELETE FROM history WHERE id NOT IN (... LIMIT 100))
TxEvict ==
    /\ txPc = "evict"
    /\ \E ok \in BOOLEAN :
         IF ok
         THEN /\ txRows' = EvictBeyondLimit(txRows)
              /\ txPc' = "commit"
              /\ UNCHANGED <<sqlHistory, txReq, txBefore, txOutcome>>
         ELSE Rollback("evict failed")
    /\ UNCHANGED notTx

\* return tx.Commit()
TxCommit ==
    /\ txPc = "commit"
    /\ \E ok \in BOOLEAN :
         IF ok
         THEN /\ sqlHistory' = txRows
              /\ txOutcome' = Outcome("committed")
              /\ txPc' = "idle"
              /\ txRows' = <<>>
              /\ txReq' = NoRequest
              /\ txBefore' = <<>>
         ELSE Rollback("commit failed")
    /\ UNCHANGED notTx

\* The process ends inside the call; the next one opens the database.
TxCrash ==
    /\ txPc \in {"insert", "evict", "commit"}
    /\ Rollback("crashed")
    /\ UNCHANGED notTx

NextAtomicAdd == TxBegin \/ TxInsert \/ TxEvict \/ TxCommit \/ TxCrash

SpecAtomicAdd == InitAtomicAdd /\ [][NextAtomicAdd]_vars

\* C27: the history table changes only when AddToHistory commits, and then
\* to the table before the call with the record inserted and the rows beyond
\* the limit evicted; when the insert or the eviction fails, or the process
\* ends between two statements of the call, the table is what it was before
\* the call; the table never holds more rows than the limit.
C27_AddToHistoryAtomic ==
    [][ /\ sqlHistory' # sqlHistory =>
              /\ txPc = "commit"
              /\ txOutcome'.how = "committed"
              /\ sqlHistory' = SQLiteAddToHistory(txBefore, txReq, tieOrder)
        /\ txOutcome'.how \in {"insert failed", "evict failed", "commit failed", "crashed"} =>
              sqlHistory' = txBefore
        /\ txOutcome'.how = "begin failed" => sqlHistory' = sqlHistory
        /\ txPc # "idle" => sqlHistory = txBefore
        /\ Len(sqlHistory') <= HistoryLimit ]_vars

\* The process ended between the insert and the eviction of a call on a
\* full table: the transaction held one row more than the limit, the table
\* is the one before the call.
C27_Witness ==
    /\ txOutcome.how = "crashed"
    /\ txOutcome.at = "evict"
    /\ txOutcome.uncommitted = HistoryLimit + 1
    /\ txOutcome.held = HistoryLimit
    /\ ~txOutcome.replaced
    /\ Len(sqlHistory) = HistoryLimit

----------------------------------------------------------------------------
(* Two invocations started together on an empty database with a legacy     *)
(* collections.json: each runs NewStorage and so migrateFromJSON, statement *)
(* by statement, in any interleaving.  There is no history.json and no     *)
(* aliases.json.                                                           *)

Procs == {1, 2}

LegacySaved(name, request) ==
    SavedRequest(name, request, "GET", <<"a", "p", "i", "/", "u", "s", "e", "r", "s">>, EmptyHeaders, "")

\* The collections.json documents: at least one collection with a request.
LegacyCollectionDocuments ==
    { JSONSaveCollections([n \in {"mycol"} |-> <<LegacySaved("mycol", "one")>>]),
      JSONSaveCollections([n \in {"mycol"} |->
                              <<LegacySaved("mycol", "one"), LegacySaved("mycol", "two")>>]),
      JSONSaveCollections([n \in {"mycol", "other"} |->
                              IF n = "mycol" THEN <<LegacySaved("mycol", "one")>>
                              ELSE <<LegacySaved("other", "two")>>]) }

InitRace ==
    /\ HistoryIdle
    /\ tieOrder = "oldest first"
    /\ RedactIdle
    /\ ValidateIdle
    /\ CommandIdle
    /\ ResolveIdle
    /\ MigrateIdle
    /\ ClientIdle
    /\ TxIdle
    /\ jsonCols \in LegacyCollectionDocuments
    /\ sqlCols = EmptyDatabase
    /\ addedTo = [A |-> <<>>, B |-> <<>>]
    /\ colOps = 0
    /\ lastCol = NoOperation
    /\ racePc = [p \in Procs |-> "SELECT COUNT(*) FROM history"]
    /\ raceTodo = [p \in Procs |-> <<>>]
    /\ raceLegacy = jsonCols

notRace == <<histVars, redactVars, urlVars, cmdVars, resolveVars, migrateVars,
             addedTo, colOps, lastCol, clientVars, txVars, raceLegacy>>

At(p, statement) == racePc[p] = statement

Goto(p, statement) == racePc' = [racePc EXCEPT ![p] = statement]

\* SELECT COUNT(*) FROM history; if count > 0 return
CountHistory(p) ==
    /\ At(p, "SELECT COUNT(*) FROM history")
    /\ Goto(p, IF Len(sqlHistory) > 0 THEN "done" ELSE "SELECT COUNT(*) FROM collections")
    /\ UNCHANGED <<jsonCols, sqlCols, raceTodo, notRace>>

\* SELECT COUNT(*) FROM collections; if count > 0 return
CountCollections(p) ==
    /\ At(p, "SELECT COUNT(*) FROM collections")
    /\ Goto(p, IF sqlCols.collections # {} THEN "done" ELSE "SELECT COUNT(*) FROM aliases")
    /\ UNCHANGED <<jsonCols, sqlCols, raceTodo, notRace>>

\* SELECT COUNT(*) FROM aliases; if count > 0 return.  os.ReadFile of
\* history.json fails: there is no such file.
CountAliases(p) ==
    /\ At(p, "SELECT COUNT(*) FROM aliases")
    /\ Goto(p, IF Len(aliases) > 0 THEN "done" ELSE "os.ReadFile")
    /\ UNCHANGED <<jsonCols, sqlCols, raceTodo, notRace>>

\* The writes of the replay of a collection: CreateCollection, then
\* AddToCollection for each of its requests in their order.
WritesFor(name, requests) ==
    <<[op |-> "CreateCollection", name |-> name]>>
        \o [i \in 1..Len(requests) |-> [op |-> "AddToCollection", name |-> name, req |-> requests[i]]]

\* The orders in which range goes through the names of a map.
Orders(names) ==
    {order \in [1..Cardinality(names) -> names] :
        \A i, j \in DOMAIN order : order[i] = order[j] => i = j}

RECURSIVE WritesInOrder(_, _)
WritesInOrder(map, order) ==
    IF order = <<>> THEN <<>>
    ELSE WritesFor(Head(order), map[Head(order)]) \o WritesInOrder(map, Tail(order))

\* os.ReadFile(collectionsPath) and json.Unmarshal: a process that finds no
\* file has nothing to replay (and finds no aliases.json either).
ReadCollectionsFile(p) ==
    /\ At(p, "os.ReadFile")
    /\ IF jsonCols.exists /\ DOMAIN jsonCols.map # {}
       THEN /\ \E order \in Orders(DOMAIN jsonCols.map) :
                 raceTodo' = [raceTodo EXCEPT ![p] = WritesInOrder(jsonCols.map, order)]
            /\ Goto(p, "replay")
       ELSE /\ Goto(p, "done")
            /\ UNCHANGED raceTodo
    /\ UNCHANGED <<jsonCols, sqlCols, notRace>>

\* s.CreateCollection(name) or s.AddToCollection(name, req): one statement
\* or one transaction of the replay.
ReplayWrite(p) ==
    /\ At(p, "replay")
    /\ raceTodo[p] # <<>>
    /\ LET write == Head(raceTodo[p])
       IN  sqlCols' = IF write.op = "CreateCollection"
                      THEN SQLiteCreateCollection(sqlCols, write.name)
                      ELSE SQLiteAddToCollection(sqlCols, write.name, write.req)
    /\ raceTodo' = [raceTodo EXCEPT ![p] = Tail(@)]
    /\ UNCHANGED <<racePc, jsonCols, notRace>>

\* os.Rename(collectionsPath, collectionsPath+".migrated"): its error, when
\* the other process has renamed the file already, is not looked at.
RenameCollectionsFile(p) ==
    /\ At(p, "replay")
    /\ raceTodo[p] = <<>>
    /\ jsonCols' = NoDocument
    /\ Goto(p, "done")
    /\ UNCHANGED <<sqlCols, raceTodo, notRace>>

NextRace ==
    \E p \in Procs :
        \/ CountHistory(p)
        \/ CountCollections(p)
        \/ CountAliases(p)
        \/ ReadCollectionsFile(p)
        \/ ReplayWrite(p)
        \/ RenameCollectionsFile(p)

SpecRace == InitRace /\ [][NextRace]_vars

BothDone == \A p \in Procs : At(p, "done")

\* How many times the collection holds a request of that name.
TimesSaved(name, request) ==
    LET got == SQLiteGetCollection(sqlCols, name).requests
    IN  Cardinality({i \in DOMAIN got : got[i].name = request})

\* C30 as claimed: when both invocations have finished, each saved request of
\* collections.json is in its collection exactly once.
C30_AsClaimed ==
    BothDone =>
        \A name \in DOMAIN raceLegacy.map :
            \A i \in DOMAIN raceLegacy.map[name] :
                TimesSaved(name, raceLegacy.map[name][i].name) = 1

=============================================================================
